---- MODULE Spec2Model ----
(***************************************************************************)
(* A model of the ClassicArcadeGame board simulation (js/app.js) and of    *)
(* the way js/engine.js drives it: the geometry (Point, Dimensions, Area), *)
(* the entity hierarchy, the board grid, Board construction, the keyup     *)
(* handler (Player.moveInGrid) and the frame handler (Board.update).       *)
(*                                                                         *)
(* Units.  The source computes in pixels and halves widths and heights     *)
(* when it centres one area on another, so positions are multiples of half *)
(* a pixel.  The model stores every length in half-pixels (px(n) is n      *)
(* pixels); speeds stay in pixels per second and dt is a whole number of   *)
(* seconds, so every product the code forms is an integer here and is      *)
(* exact in the doubles of the program as well.                            *)
(***************************************************************************)
EXTENDS Integers, Sequences, FiniteSets, TLC

VARIABLES
    config,             \* the arguments init() passes to new Board({...})
    grid,               \* board._grid (fixed once constructed)
    nonPlayerEntities,  \* board.nonPlayerEntities
    player,             \* board.player
    thrown,             \* "none", or the message of the error that ended the Board constructor
    lastCall,           \* the last call made on the board or the player, with its argument and result
    pass                \* one record per iteration of the loop of the last Board.update

vars == <<config, grid, nonPlayerEntities, player, thrown, lastCall, pass>>

-----------------------------------------------------------------------------
(* Bounds of the model *)

\* dt ranges over 0..MaxDt seconds
MaxDt == 2
\* Board.update is explored while at most MaxBlood blood props are on the board
MaxBlood == 1
\* ... and while the score stays within -MaxScore..MaxScore
MaxScore == 2

-----------------------------------------------------------------------------
(* Geometry: Point, Dimensions, Area *)

px(n) == 2 * n

half(n) == n \div 2

Point(x, y) == [x |-> x, y |-> y]

Dimensions(width, height) == [width |-> width, height |-> height]

Area(position, dimensions) == [position |-> position, dimensions |-> dimensions]

isArea(o) == "dimensions" \in DOMAIN o

Point_offset(p, xOffset, yOffset) == Point(p.x + xOffset, p.y + yOffset)

Area_topLeft(a) == Point(a.position.x, a.position.y)

Area_topRight(a) == Point(a.position.x + a.dimensions.width, a.position.y)

Area_bottomLeft(a) == Point(a.position.x, a.position.y + a.dimensions.height)

Area_bottomRight(a) ==
    Point(a.position.x + a.dimensions.width, a.position.y + a.dimensions.height)

Area_corners(a) ==
    <<Area_topLeft(a), Area_topRight(a), Area_bottomLeft(a), Area_bottomRight(a)>>

Area_center(a) ==
    Point(a.position.x + half(a.dimensions.width),
          a.position.y + half(a.dimensions.height))

\* (mutant) contains that leaves out the right and bottom edges
Area_contains_halfOpen(a, objectInSpace) ==
    LET inside(p) == /\ p.x >= Area_topLeft(a).x
                     /\ p.x < Area_topRight(a).x
                     /\ p.y >= Area_topLeft(a).y
                     /\ p.y < Area_bottomLeft(a).y
    IN  IF isArea(objectInSpace)
        THEN \A i \in 1..4 : inside(Area_corners(objectInSpace)[i])
        ELSE inside(objectInSpace)

Area_contains(a, objectInSpace) ==
    LET inside(p) == /\ p.x >= Area_topLeft(a).x
                     /\ p.x <= Area_topRight(a).x
                     /\ p.y >= Area_topLeft(a).y
                     /\ p.y <= Area_bottomLeft(a).y
    IN  IF isArea(objectInSpace)
        THEN \A i \in 1..4 : inside(Area_corners(objectInSpace)[i])
        ELSE inside(objectInSpace)

\* (mutant) intersectsWith that wants a corner inside both ways
Area_intersectsWith_bothWays(a, objectInSpace) ==
    IF isArea(objectInSpace)
    THEN /\ \E i \in 1..4 : Area_contains(a, Area_corners(objectInSpace)[i])
         /\ \E i \in 1..4 : Area_contains(objectInSpace, Area_corners(a)[i])
    ELSE Area_contains(a, objectInSpace)

\* (mutant) intersectsWith that tests the corners of the argument only
Area_intersectsWith_oneWay(a, objectInSpace) ==
    IF isArea(objectInSpace)
    THEN \E i \in 1..4 : Area_contains(a, Area_corners(objectInSpace)[i])
    ELSE Area_contains(a, objectInSpace)

Area_intersectsWith(a, objectInSpace) ==
    IF isArea(objectInSpace)
    THEN \/ \E i \in 1..4 : Area_contains(a, Area_corners(objectInSpace)[i])
         \/ \E i \in 1..4 : Area_contains(objectInSpace, Area_corners(a)[i])
    ELSE Area_contains(a, objectInSpace)

\* (mutant) offset that uses xOffset for both coordinates
Area_offset_xTwice(a, xOffset, yOffset) ==
    Area(Point_offset(a.position, xOffset, xOffset),
         Dimensions(a.dimensions.width, a.dimensions.height))

Area_offset(a, xOffset, yOffset) ==
    Area(Point_offset(a.position, xOffset, yOffset),
         Dimensions(a.dimensions.width, a.dimensions.height))

\* (mutant) centerOn that puts the top left corner on the point
Area_centerOn_topLeft(a, objectInSpace) ==
    LET p == IF isArea(objectInSpace) THEN Area_center(objectInSpace) ELSE objectInSpace
    IN  Area(Point(p.x, p.y), a.dimensions)

Area_centerOn(a, objectInSpace) ==
    LET p == IF isArea(objectInSpace) THEN Area_center(objectInSpace) ELSE objectInSpace
    IN  Area(Point(p.x - half(a.dimensions.width), p.y - half(a.dimensions.height)),
             a.dimensions)

-----------------------------------------------------------------------------
(* Configuration: what init() in engine.js hands to the Board constructor *)

cellVisualTemplate ==
    [sprite       |-> "images/road.png",
     dimensions   |-> Dimensions(px(101), px(171)),
     occupiedArea |-> Area(Point(px(0), px(52)), Dimensions(px(101), px(83)))]

\* the boards explored: the 1-column scenario of the specification, a
\* 1-column board with an enemy and a diamond, a 2-column board with two
\* diamonds, and a 1-column board asked to hold more diamonds than it has
\* road cells
Configs ==
    { [numberOfColumns     |-> 1,
       rowTypes            |-> <<"water", "road", "grass">>,
       numberOfEnemies     |-> 0,
       numberOfDiamonds    |-> 0,
       enemyIncrementRange |-> [min |-> 100, max |-> 101],
       cellVisualTemplate  |-> cellVisualTemplate],
      [numberOfColumns     |-> 1,
       rowTypes            |-> <<"water", "road", "grass">>,
       numberOfEnemies     |-> 1,
       numberOfDiamonds    |-> 1,
       enemyIncrementRange |-> [min |-> 100, max |-> 101],
       cellVisualTemplate  |-> cellVisualTemplate],
      [numberOfColumns     |-> 2,
       rowTypes            |-> <<"water", "road", "grass">>,
       numberOfEnemies     |-> 0,
       numberOfDiamonds    |-> 2,
       enemyIncrementRange |-> [min |-> 100, max |-> 101],
       cellVisualTemplate  |-> cellVisualTemplate],
      [numberOfColumns     |-> 1,
       rowTypes            |-> <<"water", "road", "grass">>,
       numberOfEnemies     |-> 1,
       numberOfDiamonds    |-> 2,
       enemyIncrementRange |-> [min |-> 100, max |-> 101],
       cellVisualTemplate  |-> cellVisualTemplate] }

\* the outcomes of Math.floor(Math.random() * (max - min + 1) + min)
randBetween(min, max) ==
    IF max >= min THEN min..max ELSE (max + 1)..min

-----------------------------------------------------------------------------
(* Entities *)

Entity_occupiedArea(e) ==
    Area_offset(e.visual.occupiedArea, e.position.x, e.position.y)

\* (mutant) touches that looks for a corner of the other entity only
Entity_touches_cornersOfOther(e, entity) ==
    \E i \in 1..4 :
        Area_contains(Entity_occupiedArea(e), Area_corners(Entity_occupiedArea(entity))[i])

Entity_touches(e, entity) ==
    Area_intersectsWith(Entity_occupiedArea(e), Entity_occupiedArea(entity))

BoardGridCell_typeToSprite(type) ==
    CASE type = "grass" -> "images/grass.png"
      [] type = "road"  -> "images/road.png"
      [] type = "water" -> "images/water.png"

BoardGrid_calculateCellPosition(cfg, row, column) ==
    Point(column * cfg.cellVisualTemplate.occupiedArea.dimensions.width,
          row * cfg.cellVisualTemplate.occupiedArea.dimensions.height)

\* (mutant) a cell that scores like water whatever its type
BoardGridCell_scoresAlways(cfg, type, row, column, zIndex) ==
    [kind              |-> "BoardGridCell",
     visual            |-> [sprite       |-> BoardGridCell_typeToSprite(type),
                            occupiedArea |-> Area(Point(px(0), px(52)),
                                                  Dimensions(px(101), px(83)))],
     position          |-> BoardGrid_calculateCellPosition(cfg, row, column),
     zIndex            |-> zIndex,
     hitScoreIncrement |-> 2,
     removeOnHit       |-> FALSE,
     type              |-> type,
     gridPosition      |-> [row |-> row, column |-> column]]

BoardGridCell(cfg, type, row, column, zIndex) ==
    [kind              |-> "BoardGridCell",
     visual            |-> [sprite       |-> BoardGridCell_typeToSprite(type),
                            occupiedArea |-> Area(Point(px(0), px(52)),
                                                  Dimensions(px(101), px(83)))],
     position          |-> BoardGrid_calculateCellPosition(cfg, row, column),
     zIndex            |-> zIndex,
     hitScoreIncrement |-> IF type = "water" THEN 2 ELSE 0,
     removeOnHit       |-> FALSE,
     type              |-> type,
     gridPosition      |-> [row |-> row, column |-> column]]

\* (mutant) a z-index that is the row index
rowZIndex_byRow(rowIndex) == rowIndex

\* let zIndex = 0; for each rowIndex: zIndex += rowIndex
RECURSIVE rowZIndex(_)
rowZIndex(rowIndex) ==
    IF rowIndex <= 0 THEN 0 ELSE rowZIndex(rowIndex - 1) + rowIndex

\* the size of the canvas doc.createElement('canvas') returns: 300 by 150
\* pixels, which it keeps until init() has constructed the Board
Canvas_created == Dimensions(px(300), px(150))

\* the size init() gives the canvas after it has constructed the Board
Canvas_sized(cfg) ==
    Dimensions(cfg.numberOfColumns * cfg.cellVisualTemplate.dimensions.width,
               (Len(cfg.rowTypes) - 1) * cfg.cellVisualTemplate.occupiedArea.dimensions.height
                  + cfg.cellVisualTemplate.dimensions.height)

\* BoardGrid._area: the constructor reads ctx.canvas.width and height
BoardGrid_area(cfg) == Area(Point(0, 0), Canvas_created)

BoardGrid(cfg) ==
    [numberOfColumns |-> cfg.numberOfColumns,
     numberOfRows    |-> Len(cfg.rowTypes),
     rows            |-> [r \in 1..Len(cfg.rowTypes) |->
                            [c \in 1..cfg.numberOfColumns |->
                               BoardGridCell(cfg, cfg.rowTypes[r], r - 1, c - 1,
                                             rowZIndex(r - 1))]],
     area            |-> BoardGrid_area(cfg),
     occupiedArea    |-> Area(Point(cfg.cellVisualTemplate.occupiedArea.position.x,
                                    cfg.cellVisualTemplate.occupiedArea.position.y),
                              Dimensions(cfg.cellVisualTemplate.occupiedArea.dimensions.width
                                            * cfg.numberOfColumns,
                                         cfg.cellVisualTemplate.occupiedArea.dimensions.height
                                            * Len(cfg.rowTypes)))]

\* grid.cells: the cells row by row, in the order the constructor pushes them
BoardGrid_cells(g) ==
    [k \in 1..(g.numberOfRows * g.numberOfColumns) |->
        g.rows[((k - 1) \div g.numberOfColumns) + 1][((k - 1) % g.numberOfColumns) + 1]]

BoardGrid_hasCell(g, row, column) ==
    /\ row >= 0
    /\ row < g.numberOfRows
    /\ column >= 0
    /\ column < g.numberOfColumns

\* rows and columns are zero-based in the source, sequences one-based here
BoardGrid_getCell(g, row, column) == g.rows[row + 1][column + 1]

BoardGrid_rowTypes(g) == [r \in 1..g.numberOfRows |-> g.rows[r][1].type]

\* (mutant) moveToCell that aligns the top left corners instead of the centres
Entity_moveToCell_topLeft(g, e, row, column) ==
    LET cellArea  == Entity_occupiedArea(BoardGrid_getCell(g, row, column))
        actorArea == Entity_occupiedArea(e)
    IN  Point_offset(e.position,
                     cellArea.position.x - actorArea.position.x,
                     cellArea.position.y - actorArea.position.y)

\* the new _position of entity e after e.moveToCell(row, column)
Entity_moveToCell(g, e, row, column) ==
    LET cellArea     == Entity_occupiedArea(BoardGrid_getCell(g, row, column))
        actorArea    == Entity_occupiedArea(e)
        newActorArea == Area_centerOn(actorArea, cellArea)
    IN  Point_offset(e.position,
                     newActorArea.position.x - actorArea.position.x,
                     newActorArea.position.y - actorArea.position.y)

\* (mutant) a diamond that stays on the board when it is hit
Diamond_staysOnHit(position, hitScoreIncrement) ==
    [kind              |-> "Diamond",
     visual            |-> [sprite       |-> "images/diamond.png",
                            occupiedArea |-> Area(Point(px(3), px(100)),
                                                  Dimensions(px(95), px(62)))],
     position          |-> position,
     zIndex            |-> 101,
     hitScoreIncrement |-> hitScoreIncrement,
     removeOnHit       |-> FALSE]

Diamond(position, hitScoreIncrement) ==
    [kind              |-> "Diamond",
     visual            |-> [sprite       |-> "images/diamond.png",
                            occupiedArea |-> Area(Point(px(3), px(100)),
                                                  Dimensions(px(95), px(62)))],
     position          |-> position,
     zIndex            |-> 101,
     hitScoreIncrement |-> hitScoreIncrement,
     removeOnHit       |-> TRUE]

\* (mutant) an enemy whose occupied area is its whole sprite
Enemy_wholeSprite(cfg, hitScoreIncrement, removeOnHit, moveIncrement) ==
    [kind                |-> "Enemy",
     visual              |-> [sprite       |-> IF moveIncrement.x >= 0
                                               THEN "images/enemy-right.png"
                                               ELSE "images/enemy-left.png",
                              dimensions   |-> cfg.cellVisualTemplate.dimensions,
                              occupiedArea |-> Area(Point(0, 0),
                                                    cfg.cellVisualTemplate.dimensions)],
     position            |-> Point(0, 0),
     zIndex              |-> 200,
     hitScoreIncrement   |-> hitScoreIncrement,
     removeOnHit         |-> removeOnHit,
     canMoveOutsideBoard |-> TRUE,
     moveIncrement       |-> moveIncrement,
     respawnOnNextUpdate |-> FALSE]

Enemy(cfg, hitScoreIncrement, removeOnHit, moveIncrement) ==
    [kind                |-> "Enemy",
     visual              |-> [sprite       |-> IF moveIncrement.x >= 0
                                               THEN "images/enemy-right.png"
                                               ELSE "images/enemy-left.png",
                              dimensions   |-> cfg.cellVisualTemplate.dimensions,
                              occupiedArea |-> Area(Point(px(2), px(102)),
                                                    Dimensions(px(96), px(42)))],
     position            |-> Point(0, 0),
     zIndex              |-> 200,
     hitScoreIncrement   |-> hitScoreIncrement,
     removeOnHit         |-> removeOnHit,
     canMoveOutsideBoard |-> TRUE,
     moveIncrement       |-> moveIncrement,
     respawnOnNextUpdate |-> FALSE]

\* (mutant) someOnTheBoard that asks for the whole occupied area
Entity_someOnTheBoard_allOn(g, e) ==
    Area_contains(g.occupiedArea, Entity_occupiedArea(e))

Entity_someOnTheBoard(g, e) ==
    Area_intersectsWith(Entity_occupiedArea(e), g.occupiedArea)

Math_ceilHalf(n) == IF n >= 0 THEN (n + 1) \div 2 ELSE -((-n) \div 2)

Board_playerStartPosition(g) ==
    [row |-> g.numberOfRows - 1, column |-> Math_ceilHalf(g.numberOfColumns - 1)]

\* new Player(board)
\* (mutant) a player whose occupied area is its whole sprite
Player_wholeSprite(g) ==
    LET start == Board_playerStartPosition(g)
        fresh == [kind                |-> "Player",
                  visual              |-> [sprite       |-> "images/player.png",
                                           occupiedArea |-> Area(Point(0, 0),
                                                                 Dimensions(px(101), px(171)))],
                  position            |-> Point(0, 0),
                  zIndex              |-> 300,
                  hitScoreIncrement   |-> 0,
                  removeOnHit         |-> FALSE,
                  canMoveOutsideBoard |-> FALSE,
                  gridPosition        |-> start,
                  score               |-> 0]
    IN  [fresh EXCEPT !.position = Entity_moveToCell(g, fresh, start.row, start.column)]

Player(g) ==
    LET start == Board_playerStartPosition(g)
        fresh == [kind                |-> "Player",
                  visual              |-> [sprite       |-> "images/player.png",
                                           occupiedArea |-> Area(Point(px(34), px(120)),
                                                                 Dimensions(px(34), px(20)))],
                  position            |-> Point(0, 0),
                  zIndex              |-> 300,
                  hitScoreIncrement   |-> 0,
                  removeOnHit         |-> FALSE,
                  canMoveOutsideBoard |-> FALSE,
                  gridPosition        |-> start,
                  score               |-> 0]
    IN  [fresh EXCEPT !.position = Entity_moveToCell(g, fresh, start.row, start.column)]


\* board.player before the constructor has created one
NoPlayer == [kind |-> "null"]

-----------------------------------------------------------------------------
(* Actor, Enemy *)

\* Actor.canMove: an actor confined to the board reads the free name `board',
\* which app.js never defines
Actor_canMove(a, increment) ==
    IF a.canMoveOutsideBoard
    THEN [thrown |-> "none", value |-> TRUE]
    ELSE [thrown |-> "ReferenceError: board is not defined", value |-> FALSE]

\* Actor.move: the actor after the call and what the call returned
Actor_move(a, increment) ==
    LET can == Actor_canMove(a, increment)
    IN  IF can.thrown /= "none"
        THEN [thrown |-> can.thrown, value |-> FALSE, actor |-> a]
        ELSE IF ~can.value
        THEN [thrown |-> "none", value |-> FALSE, actor |-> a]
        ELSE [thrown |-> "none", value |-> TRUE,
              actor  |-> [a EXCEPT !.position =
                              Point_offset(a.position, increment.x, increment.y)]]

\* (mutant) update that leaves the enemy where it is
Enemy_update_standsStill(g, e, dt) ==
    [e EXCEPT !.respawnOnNextUpdate = ~Entity_someOnTheBoard(g, e)]

\* (mutant) update that moves by moveIncrement whatever dt is
Enemy_update_ignoresDt(g, e, dt) ==
    LET increment == [x |-> px(e.moveIncrement.x), y |-> px(e.moveIncrement.y)]
        moved     == Actor_move(e, increment).actor
    IN  [moved EXCEPT !.respawnOnNextUpdate = ~Entity_someOnTheBoard(g, moved)]

\* Enemy.update(dt): the enemy after the call.  moveIncrement is in pixels
\* per second and dt in seconds; px turns the product into stored units.
Enemy_update(g, e, dt) ==
    LET increment == [x |-> px(e.moveIncrement.x * dt), y |-> px(e.moveIncrement.y * dt)]
        moved     == Actor_move(e, increment).actor
    IN  [moved EXCEPT !.respawnOnNextUpdate = ~Entity_someOnTheBoard(g, moved)]

-----------------------------------------------------------------------------
(* Player *)

Directions == {"left", "up", "right", "down"}

\* allowedKeys[e.keyCode] is undefined for every other key
Tokens == Directions \cup {"undefined"}

Player_canMoveInGrid(g, p, direction) ==
    CASE direction = "left"  -> BoardGrid_hasCell(g, p.gridPosition.row, p.gridPosition.column - 1)
      [] direction = "up"    -> BoardGrid_hasCell(g, p.gridPosition.row - 1, p.gridPosition.column)
      [] direction = "right" -> BoardGrid_hasCell(g, p.gridPosition.row, p.gridPosition.column + 1)
      [] direction = "down"  -> BoardGrid_hasCell(g, p.gridPosition.row + 1, p.gridPosition.column)
      [] OTHER               -> FALSE

\* (mutant) moveInGrid that steps the grid position and leaves the pixels
Player_moveInGrid_noSnap(g, p, direction) ==
    IF ~Player_canMoveInGrid(g, p, direction)
    THEN [value |-> FALSE, player |-> p]
    ELSE LET gp == CASE direction = "left"  -> [p.gridPosition EXCEPT !.column = @ - 1]
                     [] direction = "up"    -> [p.gridPosition EXCEPT !.row = @ - 1]
                     [] direction = "right" -> [p.gridPosition EXCEPT !.column = @ + 1]
                     [] direction = "down"  -> [p.gridPosition EXCEPT !.row = @ + 1]
         IN  [value |-> TRUE, player |-> [p EXCEPT !.gridPosition = gp]]

\* Player.moveInGrid(direction): the player after the call and what it returned
Player_moveInGrid(g, p, direction) ==
    IF ~Player_canMoveInGrid(g, p, direction)
    THEN [value |-> FALSE, player |-> p]
    ELSE LET gp == CASE direction = "left"  -> [p.gridPosition EXCEPT !.column = @ - 1]
                     [] direction = "up"    -> [p.gridPosition EXCEPT !.row = @ - 1]
                     [] direction = "right" -> [p.gridPosition EXCEPT !.column = @ + 1]
                     [] direction = "down"  -> [p.gridPosition EXCEPT !.row = @ + 1]
             stepped == [p EXCEPT !.gridPosition = gp]
         IN  [value  |-> TRUE,
              player |-> [stepped EXCEPT !.position =
                              Entity_moveToCell(g, stepped, gp.row, gp.column)]]

\* (mutant) a blood prop with the sprites exchanged
Blood_swapsSprite(cfg, p, direction) ==
    [kind              |-> "Prop",
     visual            |-> [sprite       |-> IF direction >= 0
                                             THEN "images/blood-left.png"
                                             ELSE "images/blood-right.png",
                            dimensions   |-> cfg.cellVisualTemplate.dimensions,
                            occupiedArea |-> Area(Point(0, 0),
                                                  cfg.cellVisualTemplate.dimensions)],
     position          |-> Point(p.position.x, p.position.y),
     zIndex            |-> 100,
     hitScoreIncrement |-> 0,
     removeOnHit       |-> FALSE]

\* the blood prop Player.bleed(direction) creates
Blood(cfg, p, direction) ==
    [kind              |-> "Prop",
     visual            |-> [sprite       |-> IF direction >= 0
                                             THEN "images/blood-right.png"
                                             ELSE "images/blood-left.png",
                            dimensions   |-> cfg.cellVisualTemplate.dimensions,
                            occupiedArea |-> Area(Point(0, 0),
                                                  cfg.cellVisualTemplate.dimensions)],
     position          |-> Point(p.position.x, p.position.y),
     zIndex            |-> 100,
     hitScoreIncrement |-> 0,
     removeOnHit       |-> FALSE]

\* Player.bleed(direction): board.nonPlayerEntities after the call
Player_bleed(cfg, p, entities, direction) ==
    Append(entities, Blood(cfg, p, direction))

\* The three members Player overrides so that they always throw.  Each gives
\* the error thrown and the player after the call.
Player_setPosition(p, position) ==
    [thrown |-> "player entities are not allowed to move freely", player |-> p]

Player_canMove(p, increment) ==
    [thrown |-> "player entities are not allowed to move freely, use canMoveInGrid instead",
     player |-> p]

\* (mutant) move that moves the player as an Actor allowed to would
Player_move_free(p, increment) ==
    [thrown |-> "none",
     player |-> [p EXCEPT !.position = Point_offset(p.position, increment.x, increment.y)]]

Player_move(p, increment) ==
    [thrown |-> "player entities are not allowed to move freely, use moveInGrid instead",
     player |-> p]

-----------------------------------------------------------------------------
(* Board *)

\* (mutant) respawnPlayer that leaves the player where it is
Board_respawnPlayer_inPlace(g, p, keepScore) == p

\* (mutant) respawnPlayer that keeps the score whatever keepScore is
Board_respawnPlayer_keepsAlways(g, p, keepScore) == [Player(g) EXCEPT !.score = p.score]

\* (mutant) respawnPlayer that drops the score
Board_respawnPlayer_resetsScore(g, p, keepScore) == Player(g)

\* Board.respawnPlayer(keepScore): board.player after the call
Board_respawnPlayer(g, p, keepScore) ==
    LET score == p.score
    IN  IF keepScore THEN [Player(g) EXCEPT !.score = score] ELSE Player(g)

\* the zero-based indices of the rows of type road, in row order
Board_roadRowIndices(g) ==
    LET types  == BoardGrid_rowTypes(g)
        isRoad(index) == types[index + 1] = "road"
    IN  SelectSeq([r \in 1..g.numberOfRows |-> r - 1], isRoad)

\* the random numbers one call of spawnEnemy can draw (at least one road row)
SpawnDraws(cfg, g) ==
    UNION { { [direction |-> d, roadIndex |-> i, x |-> x] :
                i \in randBetween(0, Len(Board_roadRowIndices(g)) - 1),
                x \in LET direction == IF d = 1 THEN 1 ELSE -1
                      IN  randBetween(direction * cfg.enemyIncrementRange.min,
                                      direction * cfg.enemyIncrementRange.max) } :
            d \in randBetween(0, 1) }

\* (mutant) spawnEnemy that pushes the enemy off the edge opposite to its start
Board_newEnemy_wrongSide(cfg, g, draw) ==
    LET direction       == IF draw.direction = 1 THEN 1 ELSE -1
        cellRowIndex    == Board_roadRowIndices(g)[draw.roadIndex + 1]
        cellColumnIndex == IF direction = 1 THEN 0 ELSE g.numberOfColumns - 1
        enemy           == Enemy(cfg, -2, FALSE, [x |-> draw.x, y |-> 0])
        placed          == [enemy EXCEPT !.position =
                               Entity_moveToCell(g, enemy, cellRowIndex, cellColumnIndex)]
        areaWidth       == placed.visual.dimensions.width
        areaRight       == placed.position.x + areaWidth
        areaLeft        == placed.position.x
        occupied        == Entity_occupiedArea(placed)
    IN  IF direction /= 1
        THEN [placed EXCEPT !.position =
                 Point_offset(placed.position,
                              -1 * (areaWidth - (areaRight - Area_topRight(occupied).x)), 0)]
        ELSE [placed EXCEPT !.position =
                 Point_offset(placed.position,
                              areaWidth - (areaLeft - Area_topLeft(occupied).x), 0)]

\* the enemy spawnEnemy creates from the numbers drawn
Board_newEnemy(cfg, g, draw) ==
    LET direction       == IF draw.direction = 1 THEN 1 ELSE -1
        cellRowIndex    == Board_roadRowIndices(g)[draw.roadIndex + 1]
        cellColumnIndex == IF direction = 1 THEN 0 ELSE g.numberOfColumns - 1
        enemy           == Enemy(cfg, -2, FALSE, [x |-> draw.x, y |-> 0])
        placed          == [enemy EXCEPT !.position =
                               Entity_moveToCell(g, enemy, cellRowIndex, cellColumnIndex)]
        areaWidth       == placed.visual.dimensions.width
        areaRight       == placed.position.x + areaWidth
        areaLeft        == placed.position.x
        occupied        == Entity_occupiedArea(placed)
    IN  IF direction = 1
        THEN [placed EXCEPT !.position =
                 Point_offset(placed.position,
                              -1 * (areaWidth - (areaRight - Area_topRight(occupied).x)), 0)]
        ELSE [placed EXCEPT !.position =
                 Point_offset(placed.position,
                              areaWidth - (areaLeft - Area_topLeft(occupied).x), 0)]

\* what spawnEnemy throws: without a road row roadRowIndices[0] is undefined
\* and getCell(undefined, column) reads a column of undefined
Board_spawnEnemy_thrown(g) ==
    IF Len(Board_roadRowIndices(g)) = 0
    THEN "TypeError: this._rows[row] is undefined"
    ELSE "none"

\* Board.spawnEnemy(): board.nonPlayerEntities after the call
Board_spawnEnemy(cfg, g, entities, draw) ==
    Append(entities, Board_newEnemy(cfg, g, draw))

isEnemy(entity) == entity.kind = "Enemy"

isDiamond(entity) == entity.kind = "Diamond"

\* (mutant) a water test that never matches
isWaterCell_never(entity) == FALSE

isWaterCell(entity) == entity.kind = "BoardGridCell" /\ entity.type = "water"

\* Board.respawnEnemies(): board.nonPlayerEntities after the call; draws holds
\* the numbers of the numberOfEnemies calls of spawnEnemy
RECURSIVE Board_spawnEnemies(_, _, _, _)
Board_spawnEnemies(cfg, g, entities, draws) ==
    IF draws = <<>> THEN entities
    ELSE Board_spawnEnemies(cfg, g, Board_spawnEnemy(cfg, g, entities, Head(draws)), Tail(draws))

Board_respawnEnemies(cfg, g, entities, draws) ==
    LET notEnemy(entity) == ~isEnemy(entity)
    IN  Board_spawnEnemies(cfg, g, SelectSeq(entities, notEnemy), draws)

\* Board.placeDiamonds(): draws holds the indices the loop draws that are not
\* in `indices' yet (drawing one that is changes nothing and the loop draws again)
RECURSIVE Board_placeDiamondsLoop(_, _, _, _, _)
Board_placeDiamondsLoop(cfg, g, roadCells, entities, draws) ==
    IF draws = <<>> THEN [thrown |-> "none", nonPlayerEntities |-> entities]
    ELSE LET index == Head(draws)
         IN  IF index + 1 > Len(roadCells)
             THEN [thrown |-> "TypeError: cell is undefined", nonPlayerEntities |-> entities]
             ELSE LET cell    == roadCells[index + 1]
                      diamond == Diamond(Point(cell.position.x, cell.position.y), 1)
                      placed  == [diamond EXCEPT !.position =
                                     Entity_moveToCell(g, diamond, cell.gridPosition.row,
                                                       cell.gridPosition.column)]
                  IN  Board_placeDiamondsLoop(cfg, g, roadCells, Append(entities, placed),
                                              Tail(draws))

Board_roadCells(g) ==
    LET isRoadCell(cell) == cell.type = "road"
    IN  SelectSeq(BoardGrid_cells(g), isRoadCell)

\* (mutant) placeDiamonds without the test for enough road cells
Board_placeDiamonds_unchecked(cfg, g, entities, draws) ==
    Board_placeDiamondsLoop(cfg, g, Board_roadCells(g), entities, draws)

Board_placeDiamonds(cfg, g, entities, draws) ==
    IF \E i \in 1..Len(entities) : isDiamond(entities[i])
    THEN [thrown |-> "TypeError: this is undefined", nonPlayerEntities |-> entities]
    ELSE IF cfg.numberOfDiamonds > Len(Board_roadCells(g))
    THEN [thrown |-> "not enough space on board to place all diamonds",
          nonPlayerEntities |-> entities]
    ELSE Board_placeDiamondsLoop(cfg, g, Board_roadCells(g), entities, draws)

\* (mutant) draws that may repeat an index already used
DiamondDraws_repeats(cfg, g) ==
    LET n == Len(Board_roadCells(g))
    IN  IF cfg.numberOfDiamonds > n THEN {<<>>}
        ELSE [1..cfg.numberOfDiamonds -> randBetween(0, n - 1)]

\* the sequences of new indices placeDiamonds can draw: numberOfDiamonds of
\* them, or fewer ending with the first index that has no cell
DiamondDraws(cfg, g) ==
    LET n == Len(Board_roadCells(g))
    IN  IF cfg.numberOfDiamonds > n THEN {<<>>}
        ELSE { d \in UNION { [1..k -> randBetween(0, n)] : k \in 0..cfg.numberOfDiamonds } :
                 /\ \A i, j \in 1..Len(d) : i /= j => d[i] /= d[j]
                 /\ \A i \in 1..(Len(d) - 1) : d[i] < n
                 /\ Len(d) < cfg.numberOfDiamonds => (Len(d) > 0 /\ d[Len(d)] = n) }

\* new Board({...}): the fields of the board when the constructor returns or throws
Board(cfg, diamondDraws, spawnDraws) ==
    LET g        == BoardGrid(cfg)
        diamonds == Board_placeDiamonds(cfg, g, BoardGrid_cells(g), diamondDraws)
    IN  IF diamonds.thrown /= "none"
        THEN [thrown |-> diamonds.thrown, grid |-> g, player |-> NoPlayer,
              nonPlayerEntities |-> diamonds.nonPlayerEntities]
        ELSE [thrown |-> "none", grid |-> g, player |-> Player(g),
              nonPlayerEntities |->
                  Board_respawnEnemies(cfg, g, diamonds.nonPlayerEntities, spawnDraws)]


\* (mutant) splice that removes nothing
Array_splice_keepsAll(array, index) == array

\* array.splice(index, 1), index one-based here
Array_splice(array, index) ==
    IF index > Len(array) THEN array
    ELSE SubSeq(array, 1, index - 1) \o SubSeq(array, index + 1, Len(array))

\* One iteration of the loop of Board.update, for the (one-based) index.
\* st holds board.nonPlayerEntities, board.player, the numbers spawnEnemy
\* has still to draw, and the record of the iterations made so far.
Board_updateStep(cfg, g, st, index, dt) ==
    LET entity    == st.nonPlayerEntities[index]
        hit       == Entity_touches(st.player, entity)
        scored    == IF hit
                     THEN [st.player EXCEPT !.score = @ + entity.hitScoreIncrement]
                     ELSE st.player
        removed   == hit /\ entity.removeOnHit
        entities1 == IF removed
                     THEN Array_splice(st.nonPlayerEntities, index)
                     ELSE st.nonPlayerEntities
        killed    == hit /\ isEnemy(entity)
        entities2 == IF killed
                     THEN Player_bleed(cfg, scored, entities1, entity.moveIncrement.x)
                     ELSE entities1
        player2   == IF killed THEN Board_respawnPlayer(g, scored, TRUE) ELSE scored
        player3   == IF hit /\ isWaterCell(entity)
                     THEN Board_respawnPlayer(g, player2, TRUE)
                     ELSE player2
        updated   == IF isEnemy(entity) THEN Enemy_update(g, entity, dt) ELSE entity
        entities3 == IF isEnemy(entity) /\ ~removed
                     THEN [entities2 EXCEPT ![index] = updated]
                     ELSE entities2
        recycled  == isEnemy(entity) /\ updated.respawnOnNextUpdate
        spawned   == recycled /\ Board_spawnEnemy_thrown(g) = "none"
        entities4 == IF spawned
                     THEN Board_spawnEnemy(cfg, g, Array_splice(entities3, index),
                                           Head(st.draws))
                     ELSE IF recycled THEN Array_splice(entities3, index)
                     ELSE entities3
    IN  [nonPlayerEntities |-> entities4,
         player            |-> player3,
         draws             |-> IF spawned THEN Tail(st.draws) ELSE st.draws,
         thrown            |-> IF recycled THEN Board_spawnEnemy_thrown(g) ELSE "none",
         pass              |-> Append(st.pass,
                                 [index          |-> index,
                                  entity         |-> entity,
                                  entityAfter    |-> updated,
                                  player         |-> st.player,
                                  playerAfter    |-> player3])]

\* for (let index = length - 1; index >= 0; index--)
RECURSIVE Board_updateLoop(_, _, _, _, _)
Board_updateLoop(cfg, g, st, index, dt) ==
    IF index < 1 \/ st.thrown /= "none" THEN st
    ELSE Board_updateLoop(cfg, g, Board_updateStep(cfg, g, st, index, dt), index - 1, dt)

\* (mutant) a pass that starts one entity too low
Board_update_skipsLast(cfg, g, entities, p, dt, draws) ==
    Board_updateLoop(cfg, g,
                     [nonPlayerEntities |-> entities, player |-> p,
                      draws |-> draws, thrown |-> "none", pass |-> <<>>],
                     Len(entities) - 1, dt)

\* Board.update(dt)
Board_update(cfg, g, entities, p, dt, draws) ==
    Board_updateLoop(cfg, g,
                     [nonPlayerEntities |-> entities, player |-> p,
                      draws |-> draws, thrown |-> "none", pass |-> <<>>],
                     Len(entities), dt)

\* the images engine.js hands to Resources.load before init() runs
\* (mutant) a load list without the blood images
Resources_loaded_noBlood ==
    {"images/road.png", "images/water.png", "images/grass.png",
     "images/enemy-right.png", "images/enemy-left.png", "images/player.png",
     "images/diamond.png"}

Resources_loaded ==
    {"images/road.png", "images/water.png", "images/grass.png",
     "images/enemy-right.png", "images/enemy-left.png", "images/player.png",
     "images/blood-left.png", "images/blood-right.png", "images/diamond.png"}

\* Resources.get(url): the image loaded for url, undefined for any other url
Resources_get(url) == IF url \in Resources_loaded THEN url ELSE "undefined"

\* Entity.render(): ctx.drawImage throws a TypeError when handed undefined
Entity_render(e) ==
    IF Resources_get(e.visual.sprite) = "undefined"
    THEN [thrown |-> "TypeError: drawImage: not an image"]
    ELSE [thrown |-> "none"]

\* Board.render(): every non-player entity and the player are drawn, in the
\* order of their zIndex, then the score
Board_render(entities, p) ==
    IF \E e \in {entities[i] : i \in 1..Len(entities)} \cup {p} :
          Entity_render(e).thrown /= "none"
    THEN [thrown |-> "TypeError: drawImage: not an image"]
    ELSE [thrown |-> "none"]

-----------------------------------------------------------------------------
(* The program: init() constructs the board, then keyup events and animation
   frames arrive in any order, each handled to completion. *)

bloodCount(entities) ==
    Cardinality({i \in 1..Len(entities) : entities[i].kind = "Prop"})

\* vectors handed to the members Player overrides
Vectors == { [x |-> px(101), y |-> 0], [x |-> 0, y |-> px(-83)] }

Init ==
    \E cfg \in Configs :
        \E diamondDraws \in DiamondDraws(cfg, BoardGrid(cfg)) :
            \E spawnDraws \in [1..cfg.numberOfEnemies -> SpawnDraws(cfg, BoardGrid(cfg))] :
                LET board == Board(cfg, diamondDraws, spawnDraws)
                IN  /\ config = cfg
                    /\ grid = board.grid
                    /\ nonPlayerEntities = board.nonPlayerEntities
                    /\ player = board.player
                    /\ thrown = board.thrown
                    /\ lastCall = [name |-> "Board"]
                    /\ pass = <<>>

\* the keyup listener: board.player.moveInGrid(allowedKeys[e.keyCode])
KeyUp(direction) ==
    /\ thrown = "none"
    /\ LET call == Player_moveInGrid(grid, player, direction)
       IN  /\ player' = call.player
           /\ lastCall' = [name |-> "moveInGrid", direction |-> direction,
                           value |-> call.value]
    /\ pass' = <<>>
    /\ UNCHANGED <<config, grid, nonPlayerEntities, thrown>>

\* The results Board.update(dt) can have from the current state, one for each
\* way the random numbers of its calls of spawnEnemy can fall.  The enemies a
\* pass appends are not visited in that pass, so the number of calls does not
\* depend on the numbers drawn: a first run with arbitrary numbers counts them.
updateOutcomes(dt) ==
    LET any   == CHOOSE draw \in SpawnDraws(config, grid) : TRUE
        some  == [i \in 1..config.numberOfEnemies |-> any]
        probe == Board_update(config, grid, nonPlayerEntities, player, dt, some)
        calls == config.numberOfEnemies - Len(probe.draws)
    IN  IF calls = 0 THEN {probe}
        ELSE { Board_update(config, grid, nonPlayerEntities, player, dt, draws) :
                 draws \in [1..calls -> SpawnDraws(config, grid)] }

\* main(): board.update(dt), then board.render(); an exception of either
\* ends the loop
Frame(dt) ==
    /\ thrown = "none"
    /\ \E st \in updateOutcomes(dt) :
          /\ bloodCount(st.nonPlayerEntities) <= MaxBlood
          /\ st.player.score \in -MaxScore..MaxScore
          /\ nonPlayerEntities' = st.nonPlayerEntities
          /\ player' = st.player
          /\ pass' = st.pass
          /\ thrown' = IF st.thrown /= "none" THEN st.thrown
                       ELSE Board_render(st.nonPlayerEntities, st.player).thrown
    /\ lastCall' = [name |-> "update", dt |-> dt]
    /\ UNCHANGED <<config, grid>>

\* player.position = position
SetPosition(position) ==
    /\ thrown = "none"
    /\ LET call == Player_setPosition(player, position)
       IN  /\ player' = call.player
           /\ lastCall' = [name |-> "set position", thrown |-> call.thrown]
    /\ pass' = <<>>
    /\ UNCHANGED <<config, grid, nonPlayerEntities, thrown>>

\* player.canMove(increment)
CanMove(increment) ==
    /\ thrown = "none"
    /\ LET call == Player_canMove(player, increment)
       IN  /\ player' = call.player
           /\ lastCall' = [name |-> "canMove", thrown |-> call.thrown]
    /\ pass' = <<>>
    /\ UNCHANGED <<config, grid, nonPlayerEntities, thrown>>

\* player.move(increment)
Move(increment) ==
    /\ thrown = "none"
    /\ LET call == Player_move(player, increment)
       IN  /\ player' = call.player
           /\ lastCall' = [name |-> "move", thrown |-> call.thrown]
    /\ pass' = <<>>
    /\ UNCHANGED <<config, grid, nonPlayerEntities, thrown>>

\* board.respawnPlayer(keepScore), called on the board directly
RespawnPlayer(keepScore) ==
    /\ thrown = "none"
    /\ player' = Board_respawnPlayer(grid, player, keepScore)
    /\ lastCall' = [name |-> "respawnPlayer", keepScore |-> keepScore]
    /\ pass' = <<>>
    /\ UNCHANGED <<config, grid, nonPlayerEntities, thrown>>

Next ==
    \/ \E direction \in Tokens : KeyUp(direction)
    \/ \E dt \in 0..MaxDt : Frame(dt)
    \/ \E v \in Vectors : SetPosition(Point(v.x, v.y))
    \/ \E v \in Vectors : CanMove(v)
    \/ \E v \in Vectors : Move(v)

Spec == Init /\ [][Next]_vars

-----------------------------------------------------------------------------
(* Vocabulary of the properties *)

constructed == thrown = "none"

updated == constructed /\ lastCall.name = "update"

enemyCount(entities) ==
    Cardinality({i \in 1..Len(entities) : isEnemy(entities[i])})

range(seq) == {seq[i] : i \in 1..Len(seq)}

\* the score the iteration recorded in step added to the player's score
scoreChange(step) == step.playerAfter.score - step.player.score

\* the player of an iteration touched the entity of that iteration
touched(step) == Entity_touches(step.player, step.entity)

\* the start cell, written out: bottom row, middle column rounded up
startRow == Len(config.rowTypes) - 1

startColumn ==
    IF config.numberOfColumns % 2 = 0
    THEN config.numberOfColumns \div 2
    ELSE (config.numberOfColumns - 1) \div 2

\* p is snapped to the cell (row, column): its occupied area and the cell's
\* have the same centre
snappedTo(p, row, column) ==
    /\ p.gridPosition = [row |-> row, column |-> column]
    /\ row \in 0..(Len(config.rowTypes) - 1)
    /\ column \in 0..(config.numberOfColumns - 1)
    /\ Area_center(Entity_occupiedArea(p))
         = Area_center(Entity_occupiedArea(grid.rows[row + 1][column + 1]))

standsOnWater(p) ==
    config.rowTypes[p.gridPosition.row + 1] = "water"

\* the steps recorded for a pass lead from player p0 to player p1
chained(steps, p0, p1) ==
    /\ Len(steps) > 0
    /\ steps[1].player = p0
    /\ \A k \in 1..(Len(steps) - 1) : steps[k + 1].player = steps[k].playerAfter
    /\ steps[Len(steps)].playerAfter = p1

-----------------------------------------------------------------------------
(* C1 *)

\* C1: once the Board is constructed, and after every Board.update, the
\* collection of non-player entities holds exactly numberOfEnemies enemies.
C1_EnemyCount ==
    constructed => enemyCount(nonPlayerEntities) = config.numberOfEnemies

\* an update has just removed an enemy that left the board and spawned another
C1_Witness ==
    /\ updated
    /\ config.numberOfEnemies > 0
    /\ \E k \in 1..Len(pass) :
          isEnemy(pass[k].entity) /\ pass[k].entityAfter.respawnOnNextUpdate
    /\ enemyCount(nonPlayerEntities) = config.numberOfEnemies

\* the game with respawnPlayer also called from outside Board.update
NextRespawn ==
    \/ \E direction \in Tokens : KeyUp(direction)
    \/ \E dt \in 0..MaxDt : Frame(dt)
    \/ \E keepScore \in BOOLEAN : RespawnPlayer(keepScore)

SpecRespawn == Init /\ [][NextRespawn]_vars

-----------------------------------------------------------------------------
(* C2 *)

\* C2: the score changes only in Board.update, and every change made there
\* is +1 for a diamond the player touches, +2 for a water cell it touches or
\* -2 for an enemy it touches; keyup events and the three forbidden members
\* leave the score alone.
C2_ScoreChanges ==
    [][ /\ lastCall'.name /= "update" => player'.score = player.score
        /\ lastCall'.name = "update" =>
             /\ chained(pass', player, player')
             /\ \A k \in 1..Len(pass') :
                   LET step == pass'[k]
                   IN  /\ step.entity \in range(nonPlayerEntities)
                       /\ \/ scoreChange(step) = 0
                          \/ scoreChange(step) = 1 /\ isDiamond(step.entity) /\ touched(step)
                          \/ scoreChange(step) = 2 /\ isWaterCell(step.entity) /\ touched(step)
                          \/ scoreChange(step) = -2 /\ isEnemy(step.entity) /\ touched(step)
      ]_vars

\* a player that was hit earlier (-2) has just picked up a diamond (+1)
C2_Witness ==
    /\ updated
    /\ player.score = -1
    /\ \E k \in 1..Len(pass) : scoreChange(pass[k]) = 1

-----------------------------------------------------------------------------
(* C3 *)

\* C3: when, in Board.update, the player touches a diamond, the score grows
\* by the diamond's hitScoreIncrement, which is 1, and the diamond leaves the
\* collection; every other cell, diamond and blood prop stays, in its order,
\* and the number of enemies is unchanged.
C3_DiamondPickup ==
    [][ lastCall'.name = "update" =>
          LET picked    == {k \in 1..Len(pass') :
                              isDiamond(pass'[k].entity) /\ touched(pass'[k])}
              diamonds  == {pass'[k].entity : k \in picked}
              stays(e)  == ~isEnemy(e) /\ e \notin diamonds
              static(e) == ~isEnemy(e)
              before    == SelectSeq(nonPlayerEntities, stays)
              after     == SelectSeq(nonPlayerEntities', static)
          IN  /\ \A k \in picked :
                    /\ pass'[k].entity.hitScoreIncrement = 1
                    /\ scoreChange(pass'[k]) = pass'[k].entity.hitScoreIncrement
                    /\ pass'[k].entity \in range(nonPlayerEntities)
                    /\ pass'[k].entity \notin range(nonPlayerEntities')
              /\ Len(after) >= Len(before)
              /\ SubSeq(after, 1, Len(before)) = before
              /\ enemyCount(nonPlayerEntities') = enemyCount(nonPlayerEntities)
      ]_vars

\* on a board with an enemy, the player has just picked up the diamond
C3_Witness ==
    /\ updated
    /\ config.numberOfEnemies = 1
    /\ player.score = 1
    /\ \E k \in 1..Len(pass) : isDiamond(pass[k].entity) /\ touched(pass[k])
    /\ \A i \in 1..Len(nonPlayerEntities) : ~isDiamond(nonPlayerEntities[i])

-----------------------------------------------------------------------------
(* C4 *)

\* C4: when, in Board.update, the player touches an enemy, the player that
\* continues is a fresh one on the start cell, it carries the score of the
\* player that was hit (the 2 points of the hit taken off, not reset to 0),
\* and one blood prop, at the place of the hit, is added behind the blood
\* props already there.
C4_EnemyHit ==
    [][ lastCall'.name = "update" =>
          LET hits        == {k \in 1..Len(pass') :
                                isEnemy(pass'[k].entity) /\ touched(pass'[k])}
              isBlood(e)  == e.kind = "Prop"
              bloodBefore == SelectSeq(nonPlayerEntities, isBlood)
              bloodAfter  == SelectSeq(nonPlayerEntities', isBlood)
          IN  /\ \A k \in hits :
                    /\ snappedTo(pass'[k].playerAfter, startRow, startColumn)
                    /\ pass'[k].playerAfter.score = pass'[k].player.score - 2
                    /\ \E i \in (Len(bloodBefore) + 1)..Len(bloodAfter) :
                          bloodAfter[i].position = pass'[k].player.position
              /\ Len(bloodAfter) = Len(bloodBefore) + Cardinality(hits)
              /\ SubSeq(bloodAfter, 1, Len(bloodBefore)) = bloodBefore
      ]_vars

\* the player has just been hit on the road: it is back on the start cell
\* with -2 and a blood prop lies on the board
C4_Witness ==
    /\ updated
    /\ \E k \in 1..Len(pass) :
          /\ isEnemy(pass[k].entity) /\ touched(pass[k])
          /\ pass[k].player.gridPosition.row = 1
    /\ player.score = -2
    /\ player.gridPosition = [row |-> startRow, column |-> startColumn]
    /\ bloodCount(nonPlayerEntities) = 1

-----------------------------------------------------------------------------
(* C5 *)

\* C5: when Board.update runs while the player stands on a water cell, the
\* score grows by 2 and the player continues on the start cell with that
\* score; on the 1-column board water/road/grass without enemies and
\* diamonds, an update that finds the player on row 0 (two moves up from the
\* start) leaves it on row 2, column 0 with 2 more points.
C5_Water ==
    [][ lastCall'.name = "update" =>
          /\ \A k \in 1..Len(pass') :
                isWaterCell(pass'[k].entity) /\ touched(pass'[k]) =>
                   /\ scoreChange(pass'[k]) = 2
                   /\ snappedTo(pass'[k].playerAfter, startRow, startColumn)
          /\ standsOnWater(player) =>
                /\ player'.score = player.score + 2
                /\ snappedTo(player', startRow, startColumn)
          /\ ( /\ config.numberOfColumns = 1
               /\ config.rowTypes = <<"water", "road", "grass">>
               /\ config.numberOfEnemies = 0
               /\ config.numberOfDiamonds = 0
               /\ player.gridPosition = [row |-> 0, column |-> 0] ) =>
                /\ player'.gridPosition = [row |-> 2, column |-> 0]
                /\ player'.score = player.score + 2
      ]_vars

\* the scenario's end: on that board the update has just found the player on
\* the water cell and sent it back to row 2, column 0 with 2 points
C5_Witness ==
    /\ updated
    /\ config.numberOfColumns = 1
    /\ config.numberOfEnemies = 0
    /\ config.numberOfDiamonds = 0
    /\ \E k \in 1..Len(pass) :
          /\ isWaterCell(pass[k].entity) /\ touched(pass[k])
          /\ pass[k].player.gridPosition = [row |-> 0, column |-> 0]
    /\ player.gridPosition = [row |-> 2, column |-> 0]
    /\ player.score = 2

-----------------------------------------------------------------------------
(* C6 *)

\* C6: every arrival of the player on a water cell is rewarded with 2 points,
\* exactly once.  The score changes only in Board.update, and an update that
\* finds the player on water takes it off the water, so an arrival is
\* rewarded exactly when the step that ends the stay on the water is the one
\* that adds the 2 points: a player never leaves the water without them.
C6_ArrivalRewarded ==
    [][ standsOnWater(player) /\ ~standsOnWater(player') =>
           player'.score = player.score + 2 ]_vars

-----------------------------------------------------------------------------
(* C7 *)

\* C7: Player.moveInGrid(direction) returns true exactly when direction is
\* left, up, right or down and the grid has the neighbouring cell in that
\* direction; then the grid position moves one step that way and the
\* player's occupied area is centred on that cell's.  Otherwise (edge of the
\* grid, any other token) the player is unchanged.  Nothing is thrown, and
\* the score and the other entities are untouched either way.
C7_MoveInGrid ==
    [][ lastCall'.name = "moveInGrid" =>
          LET d      == lastCall'.direction
              row    == player.gridPosition.row
              col    == player.gridPosition.column
              target == CASE d = "left"  -> [row |-> row, column |-> col - 1]
                          [] d = "up"    -> [row |-> row - 1, column |-> col]
                          [] d = "right" -> [row |-> row, column |-> col + 1]
                          [] d = "down"  -> [row |-> row + 1, column |-> col]
                          [] OTHER       -> [row |-> -1, column |-> -1]
              exists == /\ d \in {"left", "up", "right", "down"}
                        /\ target.row \in 0..(Len(config.rowTypes) - 1)
                        /\ target.column \in 0..(config.numberOfColumns - 1)
          IN  /\ lastCall'.value = exists
              /\ exists => /\ snappedTo(player', target.row, target.column)
                           /\ player'.score = player.score
              /\ ~exists => player' = player
              /\ thrown' = "none"
              /\ nonPlayerEntities' = nonPlayerEntities
      ]_vars

\* moveInGrid("left") has just taken the player from column 1 to column 0
C7_Witness ==
    /\ constructed
    /\ lastCall.name = "moveInGrid"
    /\ lastCall.direction = "left"
    /\ lastCall.value
    /\ config.numberOfColumns = 2
    /\ player.gridPosition.column = 0

-----------------------------------------------------------------------------
(* C8 *)

\* C8: in every state of a constructed board the player's grid position is a
\* cell of the grid and the player's occupied area is centred on the occupied
\* area of that cell.
C8_PlayerSnapped ==
    constructed =>
       /\ BoardGrid_hasCell(grid, player.gridPosition.row, player.gridPosition.column)
       /\ snappedTo(player, player.gridPosition.row, player.gridPosition.column)

\* a player that was hit and respawned has moved up to the water row
C8_Witness ==
    /\ constructed
    /\ lastCall.name = "moveInGrid"
    /\ lastCall.value
    /\ player.gridPosition.row = 0
    /\ bloodCount(nonPlayerEntities) >= 1
    /\ player.score < 0

-----------------------------------------------------------------------------
(* C9 *)

\* C9: assigning player.position, player.canMove(vector) and
\* player.move(vector) each throw, whatever the vector and the player's
\* state, and leave the player (pixel position, grid position, score) and
\* the rest of the board as they were.
C9_FreeMovementFails ==
    [][ lastCall'.name \in {"set position", "canMove", "move"} =>
          /\ lastCall'.thrown /= "none"
          /\ player' = player
          /\ nonPlayerEntities' = nonPlayerEntities
      ]_vars

\* move(vector) has just thrown for a player that stands away from the start
\* cell with points on its score
C9_Witness ==
    /\ constructed
    /\ lastCall.name = "move"
    /\ lastCall.thrown /= "none"
    /\ player.gridPosition.row = 1
    /\ player.score > 0

-----------------------------------------------------------------------------
(* C10 *)

\* C10: Enemy.update(dt), as Board.update calls it for every enemy, moves the
\* enemy's position.x by moveIncrement.x * dt and leaves position.y alone
\* (moveIncrement.y is 0), whether the enemy is on the board or off it.
C10_EnemyAdvance ==
    updated =>
       \A k \in 1..Len(pass) :
          isEnemy(pass[k].entity) =>
             /\ pass[k].entity.moveIncrement.y = 0
             /\ pass[k].entityAfter.position.x
                  = pass[k].entity.position.x
                      + px(pass[k].entity.moveIncrement.x * lastCall.dt)
             /\ pass[k].entityAfter.position.y = pass[k].entity.position.y

\* an enemy that was off the board before the update has moved onto it
C10_Witness ==
    /\ updated
    /\ lastCall.dt > 0
    /\ \E k \in 1..Len(pass) :
          /\ isEnemy(pass[k].entity)
          /\ ~Entity_someOnTheBoard(grid, pass[k].entity)
          /\ Entity_someOnTheBoard(grid, pass[k].entityAfter)
          /\ pass[k].entityAfter.position.x /= pass[k].entity.position.x

-----------------------------------------------------------------------------
(* C11 *)

\* two rectangles share at least one point (edges included)
overlap(a, b) ==
    /\ a.position.x <= b.position.x + b.dimensions.width
    /\ b.position.x <= a.position.x + a.dimensions.width
    /\ a.position.y <= b.position.y + b.dimensions.height
    /\ b.position.y <= a.position.y + a.dimensions.height

\* the grid's total occupied area, written out from the configuration
gridOccupiedArea ==
    [position   |-> [x |-> px(0), y |-> px(52)],
     dimensions |-> [width  |-> px(101) * config.numberOfColumns,
                     height |-> px(83) * Len(config.rowTypes)]]

\* C11: after Enemy.update(dt), respawnOnNextUpdate is true exactly when the
\* enemy's occupied area, where the move left it, shares no point with the
\* grid's total occupied area.
C11_RespawnFlag ==
    updated =>
       \A k \in 1..Len(pass) :
          isEnemy(pass[k].entity) =>
             ( pass[k].entityAfter.respawnOnNextUpdate
                 <=> ~overlap(Entity_occupiedArea(pass[k].entityAfter), gridOccupiedArea) )

\* an enemy that was on the board before the update has left it and is flagged
C11_Witness ==
    /\ updated
    /\ \E k \in 1..Len(pass) :
          /\ isEnemy(pass[k].entity)
          /\ overlap(Entity_occupiedArea(pass[k].entity), gridOccupiedArea)
          /\ ~overlap(Entity_occupiedArea(pass[k].entityAfter), gridOccupiedArea)
          /\ pass[k].entityAfter.respawnOnNextUpdate

-----------------------------------------------------------------------------
(* C12 *)

\* C12: an enemy that spawnEnemy creates for the direction left to right
\* (moveIncrement.x > 0) lies wholly off the board: someOnTheBoard is false
\* for it when the constructor returns.
C12_SpawnedOffBoard ==
    (constructed /\ lastCall.name = "Board") =>
       \A i \in 1..Len(nonPlayerEntities) :
          (isEnemy(nonPlayerEntities[i]) /\ nonPlayerEntities[i].moveIncrement.x > 0) =>
             ~Entity_someOnTheBoard(grid, nonPlayerEntities[i])

-----------------------------------------------------------------------------
(* C13 *)

\* the number of road cells, from the configuration
roadCellCount ==
    Cardinality({r \in 1..Len(config.rowTypes) : config.rowTypes[r] = "road"})
       * config.numberOfColumns

\* entity e is centred on the road cell (row, column)
onRoadCell(e, row, column) ==
    /\ config.rowTypes[row + 1] = "road"
    /\ Area_center(Entity_occupiedArea(e))
         = [x |-> px(101) * column + px(101) \div 2,
            y |-> px(52) + px(83) * row + px(83) \div 2]

\* C13: when the Board constructor returns, the collection holds exactly
\* numberOfDiamonds diamonds, each centred on a road cell, no two of them on
\* the same cell.
C13_DiamondsPlaced ==
    (constructed /\ lastCall.name = "Board") =>
       LET diamonds == {i \in 1..Len(nonPlayerEntities) : isDiamond(nonPlayerEntities[i])}
       IN  /\ Cardinality(diamonds) = config.numberOfDiamonds
           /\ \A i \in diamonds :
                 \E row \in 0..(Len(config.rowTypes) - 1), column \in 0..(config.numberOfColumns - 1) :
                    onRoadCell(nonPlayerEntities[i], row, column)
           /\ \A i, j \in diamonds :
                 i /= j => nonPlayerEntities[i].position /= nonPlayerEntities[j].position

\* a board constructed with two diamonds, one on each road cell
C13_Witness ==
    /\ constructed
    /\ lastCall.name = "Board"
    /\ config.numberOfDiamonds = 2
    /\ \E i, j \in 1..Len(nonPlayerEntities) :
          /\ isDiamond(nonPlayerEntities[i]) /\ onRoadCell(nonPlayerEntities[i], 1, 0)
          /\ isDiamond(nonPlayerEntities[j]) /\ onRoadCell(nonPlayerEntities[j], 1, 1)

-----------------------------------------------------------------------------
(* C14 *)

\* C14: when numberOfDiamonds exceeds the number of road cells the Board
\* constructor throws, and it does so before a player is created or an enemy
\* spawned.
C14_TooManyDiamonds ==
    config.numberOfDiamonds > roadCellCount =>
       /\ thrown /= "none"
       /\ player = NoPlayer
       /\ enemyCount(nonPlayerEntities) = 0
       /\ \A i \in 1..Len(nonPlayerEntities) : ~isDiamond(nonPlayerEntities[i])

\* the constructor has thrown for two diamonds on a board with one road cell
\* that was to have an enemy
C14_Witness ==
    /\ config.numberOfDiamonds = 2
    /\ roadCellCount = 1
    /\ config.numberOfEnemies = 1
    /\ thrown = "not enough space on board to place all diamonds"

-----------------------------------------------------------------------------
(* C15 *)

\* C15: respawnPlayer(keepScore) leaves a fresh player on the start cell
\* (bottom row, column ceil((numberOfColumns - 1) / 2)); its score is the
\* previous player's when keepScore is true and 0 otherwise; the non-player
\* entities are unchanged.
C15_RespawnPlayer ==
    [][ lastCall'.name = "respawnPlayer" =>
          /\ snappedTo(player', startRow, startColumn)
          /\ player'.score = IF lastCall'.keepScore THEN player.score ELSE 0
          /\ [player' EXCEPT !.score = 0] = Player(grid)
          /\ nonPlayerEntities' = nonPlayerEntities
      ]_vars

\* respawnPlayer(false) has just taken a player with points back to the start
\* with none, on a board with a blood prop
C15_Witness ==
    /\ constructed
    /\ lastCall.name = "respawnPlayer"
    /\ ~lastCall.keepScore
    /\ player.score = 0
    /\ bloodCount(nonPlayerEntities) = 1
    /\ \A i \in 1..Len(nonPlayerEntities) : ~isDiamond(nonPlayerEntities[i])

-----------------------------------------------------------------------------
(* C16 *)

\* the configuration is valid: supported row types, a road row, room for the
\* diamonds
validConfiguration ==
    /\ \A r \in 1..Len(config.rowTypes) : config.rowTypes[r] \in {"water", "road", "grass"}
    /\ \E r \in 1..Len(config.rowTypes) : config.rowTypes[r] = "road"
    /\ config.numberOfDiamonds <= roadCellCount

\* C16: on a valid configuration neither Board.update(dt) nor the
\* Board.render() that follows it in a frame throws, whatever dt >= 0 and
\* whatever moves, updates, hits and respawns came before.
C16_FrameNeverThrows ==
    (validConfiguration /\ lastCall.name = "update") => thrown = "none"

\* a frame has run update and render on a board with a blood prop, and its
\* update recycled an enemy
C16_Witness ==
    /\ validConfiguration
    /\ lastCall.name = "update"
    /\ lastCall.dt > 0
    /\ thrown = "none"
    /\ bloodCount(nonPlayerEntities) >= 1
    /\ \E k \in 1..Len(pass) :
          isEnemy(pass[k].entity) /\ pass[k].entityAfter.respawnOnNextUpdate

-----------------------------------------------------------------------------
(* The geometry on its own: before init() there is no board; an Area and a
   Point or Area are drawn, and one of the Area's methods is applied to them. *)

\* coordinates of area positions, in half pixels, lie in -MaxCoord..MaxCoord
MaxCoord == 1

\* widths and heights, in pixels, lie in 0..MaxSide
MaxSide == 2

Areas ==
    { Area(Point(x, y), Dimensions(px(w), px(h))) :
        x \in -MaxCoord..MaxCoord, y \in -MaxCoord..MaxCoord,
        w \in 0..MaxSide, h \in 0..MaxSide }

\* points around and inside every area of Areas
Points ==
    { Point(x, y) :
        x \in (-MaxCoord - 1)..(MaxCoord + px(MaxSide) + 1),
        y \in (-MaxCoord - 1)..(MaxCoord + px(MaxSide) + 1) }

NoBoard == [kind |-> "null"]

InitArea ==
    /\ config = NoBoard
    /\ grid = NoBoard
    /\ nonPlayerEntities = <<>>
    /\ player = NoPlayer
    /\ thrown = "none"
    /\ pass = <<>>
    /\ \E a \in Areas, o \in Areas \cup Points :
          lastCall = [name |-> "input", area |-> a, objectInSpace |-> o]

\* area.contains(objectInSpace)
Contains ==
    /\ lastCall.name = "input"
    /\ lastCall' = [name          |-> "contains",
                    area          |-> lastCall.area,
                    objectInSpace |-> lastCall.objectInSpace,
                    value         |-> Area_contains(lastCall.area, lastCall.objectInSpace)]
    /\ UNCHANGED <<config, grid, nonPlayerEntities, player, thrown, pass>>

\* area.intersectsWith(objectInSpace) and, for an area, the call the other
\* way round, objectInSpace.intersectsWith(area)
IntersectsWith ==
    /\ lastCall.name = "input"
    /\ lastCall' = [name          |-> "intersectsWith",
                    area          |-> lastCall.area,
                    objectInSpace |-> lastCall.objectInSpace,
                    value         |-> Area_intersectsWith(lastCall.area,
                                                          lastCall.objectInSpace),
                    reverse       |-> IF isArea(lastCall.objectInSpace)
                                      THEN Area_intersectsWith(lastCall.objectInSpace,
                                                               lastCall.area)
                                      ELSE Area_intersectsWith(lastCall.area,
                                                               lastCall.objectInSpace)]
    /\ UNCHANGED <<config, grid, nonPlayerEntities, player, thrown, pass>>

\* area.offset(xOffset, yOffset), and the result offset back
Offset(xOffset, yOffset) ==
    /\ lastCall.name = "input"
    /\ LET there == Area_offset(lastCall.area, xOffset, yOffset)
       IN  lastCall' = [name    |-> "offset",
                        area    |-> lastCall.area,
                        xOffset |-> xOffset,
                        yOffset |-> yOffset,
                        value   |-> there,
                        back    |-> Area_offset(there, -xOffset, -yOffset)]
    /\ UNCHANGED <<config, grid, nonPlayerEntities, player, thrown, pass>>

\* area.centerOn(objectInSpace), and area.centerOn(objectInSpace.center)
CenterOn ==
    /\ lastCall.name = "input"
    /\ LET o == lastCall.objectInSpace
       IN  lastCall' = [name          |-> "centerOn",
                        area          |-> lastCall.area,
                        objectInSpace |-> o,
                        value         |-> Area_centerOn(lastCall.area, o),
                        onCenter      |-> IF isArea(o)
                                          THEN Area_centerOn(lastCall.area, Area_center(o))
                                          ELSE Area_centerOn(lastCall.area, o)]
    /\ UNCHANGED <<config, grid, nonPlayerEntities, player, thrown, pass>>

NextArea ==
    \/ Contains
    \/ IntersectsWith
    \/ \E xOffset, yOffset \in -MaxCoord..MaxCoord : Offset(xOffset, yOffset)
    \/ CenterOn

SpecArea == InitArea /\ [][NextArea]_vars

\* point p lies within the edges of area a, edges included
within(p, a) ==
    /\ a.position.x <= p.x /\ p.x <= a.position.x + a.dimensions.width
    /\ a.position.y <= p.y /\ p.y <= a.position.y + a.dimensions.height

\* area b lies wholly in area a
inside(b, a) ==
    /\ a.position.x <= b.position.x
    /\ b.position.x + b.dimensions.width <= a.position.x + a.dimensions.width
    /\ a.position.y <= b.position.y
    /\ b.position.y + b.dimensions.height <= a.position.y + a.dimensions.height

-----------------------------------------------------------------------------
(* C17 *)

\* C17: for a point P and an area A, A.contains(P) is true exactly when P.x
\* lies between A's left and right edges and P.y between its top and bottom
\* edges, edges included; A.intersectsWith(P) returns the same.
C17_ContainsPoint ==
    (lastCall.name \in {"contains", "intersectsWith"} /\ ~isArea(lastCall.objectInSpace)) =>
       (lastCall.value <=> within(lastCall.objectInSpace, lastCall.area))

\* intersectsWith has answered true for a point on the bottom right corner
\* of an area that is not a single point
C17_Witness ==
    /\ lastCall.name = "intersectsWith"
    /\ ~isArea(lastCall.objectInSpace)
    /\ lastCall.area.dimensions.width > 0
    /\ lastCall.area.dimensions.height > 0
    /\ lastCall.objectInSpace = Area_bottomRight(lastCall.area)
    /\ lastCall.value

-----------------------------------------------------------------------------
(* C18 *)

\* C18: for areas A and B with B wholly in A (B = A included), A.contains(B)
\* is true, A.intersectsWith(B) is true and B.intersectsWith(A) is true.
C18_Inside ==
    /\ (lastCall.name = "contains" /\ isArea(lastCall.objectInSpace)
          /\ inside(lastCall.objectInSpace, lastCall.area)) => lastCall.value
    /\ (lastCall.name = "intersectsWith" /\ isArea(lastCall.objectInSpace)
          /\ ( \/ inside(lastCall.objectInSpace, lastCall.area)
               \/ inside(lastCall.area, lastCall.objectInSpace) )) => lastCall.value

\* B.intersectsWith(A) has answered true for a B that lies in A and touches
\* none of A's edges
C18_Witness ==
    /\ lastCall.name = "intersectsWith"
    /\ isArea(lastCall.objectInSpace)
    /\ inside(lastCall.area, lastCall.objectInSpace)
    /\ lastCall.area.position.x > lastCall.objectInSpace.position.x
    /\ lastCall.area.position.y > lastCall.objectInSpace.position.y
    /\ Area_bottomRight(lastCall.area).x < Area_bottomRight(lastCall.objectInSpace).x
    /\ Area_bottomRight(lastCall.area).y < Area_bottomRight(lastCall.objectInSpace).y
    /\ lastCall.area.dimensions.width > 0
    /\ lastCall.value

-----------------------------------------------------------------------------
(* C19 *)

-----------------------------------------------------------------------------
(* C20 *)

\* C20: A.centerOn(P) has A's dimensions and its centre is P; A.centerOn(B)
\* is A.centerOn(B.center); A itself is as it was.
C20_CenterOn ==
    lastCall.name = "centerOn" =>
       /\ lastCall.value.dimensions = lastCall.area.dimensions
       /\ lastCall.area \in Areas
       /\ ~isArea(lastCall.objectInSpace) =>
             /\ 2 * lastCall.value.position.x + lastCall.value.dimensions.width
                  = 2 * lastCall.objectInSpace.x
             /\ 2 * lastCall.value.position.y + lastCall.value.dimensions.height
                  = 2 * lastCall.objectInSpace.y
       /\ isArea(lastCall.objectInSpace) =>
             /\ lastCall.value = lastCall.onCenter
             /\ 2 * lastCall.value.position.x + lastCall.value.dimensions.width
                  = 2 * lastCall.objectInSpace.position.x
                      + lastCall.objectInSpace.dimensions.width
             /\ 2 * lastCall.value.position.y + lastCall.value.dimensions.height
                  = 2 * lastCall.objectInSpace.position.y
                      + lastCall.objectInSpace.dimensions.height

\* an area has been centred on a larger area somewhere else
C20_Witness ==
    /\ lastCall.name = "centerOn"
    /\ isArea(lastCall.objectInSpace)
    /\ lastCall.objectInSpace.dimensions.width > lastCall.area.dimensions.width
    /\ lastCall.area.dimensions.width > 0
    /\ lastCall.area.dimensions.height > 0
    /\ lastCall.value.position /= lastCall.area.position
    /\ Area_center(lastCall.value) = Area_center(lastCall.objectInSpace)

-----------------------------------------------------------------------------
(* C21 *)

\* the four corners of area a, by coordinates
cornersOf(a) ==
    { [x |-> a.position.x + dx, y |-> a.position.y + dy] :
        dx \in {0, a.dimensions.width}, dy \in {0, a.dimensions.height} }

\* some corner of one of the two areas lies within the other
cornerInside(a, b) ==
    \/ \E c \in cornersOf(b) : within(c, a)
    \/ \E c \in cornersOf(a) : within(c, b)

-----------------------------------------------------------------------------
(* C22 *)

\* enemy e is vertically centred on a road row of the grid
onRoadRow(e) ==
    \E row \in 0..(Len(config.rowTypes) - 1) :
        /\ config.rowTypes[row + 1] = "road"
        /\ Area_center(Entity_occupiedArea(e)).y
             = Area_center(Entity_occupiedArea(grid.rows[row + 1][1])).y

\* the horizontal speed of e has a magnitude in the configured range
speedInRange(e) ==
    LET magnitude == IF e.moveIncrement.x >= 0 THEN e.moveIncrement.x
                     ELSE -e.moveIncrement.x
    IN  /\ magnitude >= config.enemyIncrementRange.min
        /\ magnitude <= config.enemyIncrementRange.max

\* e is where spawnEnemy puts an enemy of column 0: its visual lies left of
\* the board and its occupied area ends half a pixel inside the first cell
atLeftEdge(e) ==
    /\ e.position.x + e.visual.dimensions.width <= px(101)
    /\ Area_topRight(Entity_occupiedArea(e)).x = 1

\* e is where spawnEnemy puts an enemy of the last column: its occupied area
\* starts four and a half pixels right of the board
atRightEdge(e) ==
    Area_topLeft(Entity_occupiedArea(e)).x = px(101) * config.numberOfColumns + 9

\* the enemies of the collection no iteration of the last pass has handled:
\* the ones the constructor or the pass has just spawned
spawned(e) ==
    /\ lastCall.name \in {"Board", "update"}
    /\ isEnemy(e)
    /\ e \in range(nonPlayerEntities)
    /\ \A k \in 1..Len(pass) : pass[k].entityAfter /= e

\* C22: every enemy of the collection is vertically centred on a road row,
\* does not move vertically, and has a horizontal speed whose magnitude lies
\* in the configured range; an enemy just spawned is at the left edge when
\* its speed is positive and at the right edge when it is negative, and an
\* enemy that has moved since is still on the side of that edge its speed
\* leads away from.
C22_SpawnedEnemies ==
    constructed =>
      \A e \in range(nonPlayerEntities) :
         isEnemy(e) =>
            /\ onRoadRow(e)
            /\ e.moveIncrement.y = 0
            /\ speedInRange(e)
            /\ e.moveIncrement.x /= 0
            /\ spawned(e) => IF e.moveIncrement.x > 0 THEN atLeftEdge(e)
                             ELSE atRightEdge(e)
            /\ e.moveIncrement.x > 0 => Area_topRight(Entity_occupiedArea(e)).x >= 1
            /\ e.moveIncrement.x < 0 =>
                  Area_topLeft(Entity_occupiedArea(e)).x
                     <= px(101) * config.numberOfColumns + 9

\* a pass has replaced an enemy that left the board by one that starts at the
\* right edge with a negative speed
C22_Witness ==
    /\ updated
    /\ \E k \in 1..Len(pass) :
          /\ isEnemy(pass[k].entity)
          /\ pass[k].entityAfter.respawnOnNextUpdate
    /\ \E e \in range(nonPlayerEntities) :
          /\ spawned(e)
          /\ e.moveIncrement.x < 0
          /\ atRightEdge(e)

-----------------------------------------------------------------------------
(* C23 *)

\* C23: the iterations of one Board.update pass handle the entities that were
\* in the collection when the pass started, each of them once, from the last
\* to the first; what the pass appends is not handled in that pass.
C23_EachEntityOnce ==
    [][ (lastCall'.name = "update") =>
           /\ Len(pass') = Len(nonPlayerEntities)
           /\ \A k \in 1..Len(pass') :
                 /\ pass'[k].index = Len(nonPlayerEntities) - k + 1
                 /\ pass'[k].entity = nonPlayerEntities[pass'[k].index]
      ]_vars

\* a pass that has removed a diamond and an enemy and appended a new enemy,
\* and has made one iteration per entity it started with
C23_Witness ==
    /\ updated
    /\ \E k \in 1..Len(pass) :
          /\ isDiamond(pass[k].entity)
          /\ touched(pass[k])
          /\ pass[k].entity \notin range(nonPlayerEntities)
    /\ \E k \in 1..Len(pass) :
          /\ isEnemy(pass[k].entity)
          /\ pass[k].entityAfter.respawnOnNextUpdate
    /\ isEnemy(nonPlayerEntities[Len(nonPlayerEntities)])
    /\ Len(nonPlayerEntities) = Len(pass) - 1

-----------------------------------------------------------------------------
(* C24 *)

\* directions handed to bleed: a speed to the left, and no speed at all
BleedDirections == {-100, 0}

\* board.player.bleed(direction), called on the player directly while the
\* board holds no blood prop yet
Bleed(direction) ==
    /\ thrown = "none"
    /\ bloodCount(nonPlayerEntities) = 0
    /\ nonPlayerEntities' = Player_bleed(config, player, nonPlayerEntities, direction)
    /\ lastCall' = [name |-> "bleed", direction |-> direction]
    /\ pass' = <<>>
    /\ UNCHANGED <<config, grid, player, thrown>>

\* frame times that bring an enemy onto the board, and off it again
BleedDts == {0, 1}

NextBleed ==
    \/ \E direction \in Tokens : KeyUp(direction)
    \/ \E dt \in BleedDts : Frame(dt)
    \/ \E direction \in BleedDirections : Bleed(direction)

SpecBleed == Init /\ [][NextBleed]_vars

isBlood(e) == e.kind = "Prop"

\* b is the blood prop of a death at position in the given direction
bloodOf(b, position, direction) ==
    /\ isBlood(b)
    /\ b.position = position
    /\ b.visual.sprite = IF direction >= 0 THEN "images/blood-right.png"
                         ELSE "images/blood-left.png"
    /\ b.hitScoreIncrement = 0
    /\ b.zIndex = 100

\* C24: bleed(direction) appends one blood prop at the player's position,
\* with the right-facing sprite when direction >= 0 and the left-facing one
\* otherwise; a Board.update appends, for each enemy that hits the player,
\* the blood prop of the position the player had when it was hit and of the
\* enemy's horizontal speed; a blood prop adds 0 to the score of a player that
\* touches it, and no step removes or changes a blood prop of the collection.
C24_Bleed ==
    [][ LET bloodBefore == SelectSeq(nonPlayerEntities, isBlood)
            bloodAfter  == SelectSeq(nonPlayerEntities', isBlood)
            hits        == SelectSeq(pass', LAMBDA step :
                                        isEnemy(step.entity) /\ touched(step))
        IN  /\ Len(bloodAfter) >= Len(bloodBefore)
            /\ SubSeq(bloodAfter, 1, Len(bloodBefore)) = bloodBefore
            /\ (lastCall'.name = "bleed") =>
                  /\ Len(nonPlayerEntities') = Len(nonPlayerEntities) + 1
                  /\ SubSeq(nonPlayerEntities', 1, Len(nonPlayerEntities))
                        = nonPlayerEntities
                  /\ bloodOf(nonPlayerEntities'[Len(nonPlayerEntities')],
                             player.position, lastCall'.direction)
            /\ (lastCall'.name = "update") =>
                  /\ Len(bloodAfter) = Len(bloodBefore) + Len(hits)
                  /\ \A h \in 1..Len(hits) :
                        bloodOf(bloodAfter[Len(bloodBefore) + h],
                                hits[h].player.position,
                                hits[h].entity.moveIncrement.x)
                  /\ \A k \in 1..Len(pass') :
                        (isBlood(pass'[k].entity) /\ touched(pass'[k])) =>
                            scoreChange(pass'[k]) = 0
            /\ (lastCall'.name \notin {"bleed", "update"}) =>
                  nonPlayerEntities' = nonPlayerEntities
      ]_vars

\* a player standing on the road has bled to the left: the blood prop with
\* the left-facing sprite lies where the player stands, not on the start cell
C24_Witness ==
    /\ constructed
    /\ lastCall.name = "bleed"
    /\ lastCall.direction < 0
    /\ player.gridPosition.row /= startRow
    /\ LET b == nonPlayerEntities[Len(nonPlayerEntities)]
       IN  /\ isBlood(b)
           /\ b.position = player.position
           /\ b.visual.sprite = "images/blood-left.png"
           /\ b.position /= Board_respawnPlayer(grid, player, TRUE).position

-----------------------------------------------------------------------------
(* C30 *)

\* C30: the total area the grid recorded when the Board was constructed is
\* numberOfColumns x 101 pixels wide and (numberOfRows - 1) x 83 + 171 pixels
\* high, which is the size of the canvas of the game.
C30_GridArea ==
    /\ grid.area.position = [x |-> 0, y |-> 0]
    /\ grid.area.dimensions
          = [width  |-> px(101) * config.numberOfColumns,
             height |-> px(83) * (Len(config.rowTypes) - 1) + px(171)]
    /\ grid.area.dimensions = Canvas_sized(config)

-----------------------------------------------------------------------------
(* Construction of an Area: new Area(position, dimensions) with each argument
   an object, undefined (or not supplied), or null *)

undefined == [kind |-> "undefined"]

null == [kind |-> "null"]

object(value) == [kind |-> "object", value |-> value]

\* (mutant) a constructor without default parameters
Area_new_noDefaults(position, dimensions) ==
    IF position.kind /= "object"
    THEN [thrown |-> "an area must have a position", value |-> null]
    ELSE IF dimensions.kind /= "object"
    THEN [thrown |-> "an area must have dimensions", value |-> null]
    ELSE [thrown |-> "none", value |-> object(Area(position.value, dimensions.value))]

\* new Area(position, dimensions): an undefined argument takes its default,
\* new Point() or new Dimensions(), before the two checks run
Area_new(position, dimensions) ==
    LET p == IF position.kind = "undefined" THEN object(Point(0, 0)) ELSE position
        d == IF dimensions.kind = "undefined" THEN object(Dimensions(0, 0))
             ELSE dimensions
    IN  IF p.kind = "null"
        THEN [thrown |-> "an area must have a position", value |-> null]
        ELSE IF d.kind = "null"
        THEN [thrown |-> "an area must have dimensions", value |-> null]
        ELSE [thrown |-> "none", value |-> object(Area(p.value, d.value))]

\* the arguments drawn for the constructor
PositionArguments == {undefined, null} \cup { object(p) : p \in Points }

DimensionsArguments ==
    {undefined, null}
       \cup { object(Dimensions(px(w), px(h))) : w \in 0..MaxSide, h \in 0..MaxSide }

InitNewArea ==
    /\ config = NoBoard
    /\ grid = NoBoard
    /\ nonPlayerEntities = <<>>
    /\ player = NoPlayer
    /\ thrown = "none"
    /\ pass = <<>>
    /\ \E position \in PositionArguments, dimensions \in DimensionsArguments :
          lastCall = [name |-> "arguments", position |-> position,
                      dimensions |-> dimensions]

\* new Area(position, dimensions)
NewArea ==
    /\ lastCall.name = "arguments"
    /\ LET call == Area_new(lastCall.position, lastCall.dimensions)
       IN  lastCall' = [name       |-> "new Area",
                        position   |-> lastCall.position,
                        dimensions |-> lastCall.dimensions,
                        thrown     |-> call.thrown,
                        value      |-> call.value]
    /\ UNCHANGED <<config, grid, nonPlayerEntities, player, thrown, pass>>

NextNewArea == NewArea

SpecNewArea == InitNewArea /\ [][NextNewArea]_vars

-----------------------------------------------------------------------------
(* C28 *)

absent(argument) == argument.kind \in {"undefined", "null"}

-----------------------------------------------------------------------------
(* Members of the board's objects called directly, between key events, on
   the board init() has constructed *)

\* (mutant) getCell that throws wherever hasCell is false
BoardGrid_getCell_checked(g, row, column) ==
    IF ~BoardGrid_hasCell(g, row, column)
    THEN [thrown |-> "TypeError: this._rows[row] is undefined", value |-> undefined]
    ELSE [thrown |-> "none", value |-> object(g.rows[row + 1][column + 1])]

\* getCell(row, column) for any two integers: this._rows[row] is undefined
\* for a row the array does not have, and reading [column] of undefined
\* throws; a row the array has yields undefined for a column it does not have
BoardGrid_getCell_any(g, row, column) ==
    IF row < 0 \/ row >= Len(g.rows)
    THEN [thrown |-> "TypeError: this._rows[row] is undefined", value |-> undefined]
    ELSE IF column < 0 \/ column >= Len(g.rows[row + 1])
    THEN [thrown |-> "none", value |-> undefined]
    ELSE [thrown |-> "none", value |-> object(BoardGrid_getCell(g, row, column))]

\* board.grid.getCell(row, column), with board.grid.hasCell(row, column)
GetCell(row, column) ==
    /\ thrown = "none"
    /\ LET call == BoardGrid_getCell_any(grid, row, column)
       IN  lastCall' = [name    |-> "getCell",
                        row     |-> row,
                        column  |-> column,
                        hasCell |-> BoardGrid_hasCell(grid, row, column),
                        thrown  |-> call.thrown,
                        value   |-> call.value]
    /\ pass' = <<>>
    /\ UNCHANGED <<config, grid, nonPlayerEntities, player, thrown>>

\* Entity.allOnTheBoard: this._board is a Board, which has no member `area',
\* so this._board.area is undefined and calling contains on it throws
Entity_allOnTheBoard(g, e) ==
    [thrown |-> "TypeError: this._board.area is undefined", value |-> undefined]

\* [...board.nonPlayerEntities, board.player]
Board_entities(entities, p) == Append(entities, p)

\* entity.someOnTheBoard and entity.allOnTheBoard, read of the entity at
\* index in [...board.nonPlayerEntities, board.player]
OnTheBoard(index) ==
    /\ thrown = "none"
    /\ LET entity == Board_entities(nonPlayerEntities, player)[index]
       IN  lastCall' = [name           |-> "onTheBoard",
                        entity         |-> entity,
                        someOnTheBoard |-> [thrown |-> "none",
                                            value  |-> object(Entity_someOnTheBoard(grid, entity))],
                        allOnTheBoard  |-> Entity_allOnTheBoard(grid, entity)]
    /\ pass' = <<>>
    /\ UNCHANGED <<config, grid, nonPlayerEntities, player, thrown>>

\* new Actor({board, visual, position, canMoveOutsideBoard})
Actor(visual, position, canMoveOutsideBoard) ==
    [kind                |-> "Actor",
     visual              |-> visual,
     position            |-> position,
     zIndex              |-> 0,
     hitScoreIncrement   |-> 0,
     removeOnHit         |-> FALSE,
     canMoveOutsideBoard |-> canMoveOutsideBoard]

\* vectors that keep an actor of the first cell on the board, and one that
\* takes it far off
ActorVectors == Vectors \cup { [x |-> px(-1010), y |-> 0] }

\* actor.canMove(increment) and actor.move(increment) for an Actor made with
\* the cell visual at the point (0, 0)
ActorMove(canMoveOutsideBoard, increment) ==
    /\ thrown = "none"
    /\ LET actor == Actor(config.cellVisualTemplate, Point(0, 0), canMoveOutsideBoard)
       IN  lastCall' = [name      |-> "Actor.move",
                        actor     |-> actor,
                        increment |-> increment,
                        canMove   |-> Actor_canMove(actor, increment),
                        move      |-> Actor_move(actor, increment)]
    /\ pass' = <<>>
    /\ UNCHANGED <<config, grid, nonPlayerEntities, player, thrown>>

\* array.sort((a, b) => (a.zIndex > b.zIndex ? 1 : -1)): the orders, as
\* sequences of the indices still to place, the sort can leave the array in.
\* The comparator never returns 0 and answers -1 both ways for two entities
\* of equal zIndex, so it is not a consistent comparator and the language
\* leaves the place of such entities to the implementation: every order that
\* ascends in zIndex is an outcome.
RECURSIVE Array_sort(_, _)
Array_sort(array, indices) ==
    IF indices = {} THEN {<<>>}
    ELSE UNION { { <<i>> \o rest : rest \in Array_sort(array, indices \ {i}) } :
                 i \in { j \in indices :
                           \A k \in indices : ~(array[j].zIndex > array[k].zIndex) } }

\* Board.render(): the orders in which it can draw the entities, each a
\* sequence of indices of [...board.nonPlayerEntities, board.player]
Board_renderOrders(entities, p) ==
    Array_sort(Board_entities(entities, p), 1..(Len(entities) + 1))

\* board.render()
Render ==
    /\ thrown = "none"
    /\ \E drawn \in Board_renderOrders(nonPlayerEntities, player) :
          lastCall' = [name   |-> "render",
                       drawn  |-> drawn,
                       thrown |-> Board_render(nonPlayerEntities, player).thrown]
    /\ pass' = <<>>
    /\ UNCHANGED <<config, grid, nonPlayerEntities, player, thrown>>

NextApi ==
    \/ \E direction \in Tokens : KeyUp(direction)
    \/ \E row \in -1..Len(config.rowTypes), column \in -1..config.numberOfColumns :
          GetCell(row, column)
    \/ \E index \in 1..(Len(nonPlayerEntities) + 1) : OnTheBoard(index)
    \/ \E canMoveOutsideBoard \in BOOLEAN, increment \in ActorVectors :
          ActorMove(canMoveOutsideBoard, increment)
    \/ Render

SpecApi == Init /\ [][NextApi]_vars

-----------------------------------------------------------------------------
(* C27 *)

\* the cell the grid's constructor made for (row, column)
cellAt(row, column) ==
    BoardGridCell(config, config.rowTypes[row + 1], row, column, rowZIndex(row))

rowInRange(row) == row >= 0 /\ row < Len(config.rowTypes)

columnInRange(column) == column >= 0 /\ column < config.numberOfColumns

\* C27 as stated: getCell(row, col) returns the cell of (row, col) where
\* hasCell(row, col) is true and fails with an error where it is false.
C27_FailsOutsideGrid ==
    (lastCall.name = "getCell") =>
       /\ lastCall.hasCell =>
             /\ lastCall.thrown = "none"
             /\ lastCall.value.kind = "object"
       /\ ~lastCall.hasCell => lastCall.thrown /= "none"

\* C27, amended: getCell(row, col) returns the cell stored for (row, col)
\* whenever hasCell(row, col) is true; it fails with an error whenever the
\* row is out of range; and for a row in range and a column out of range it
\* returns undefined without an error.
C27_GetCell ==
    (lastCall.name = "getCell") =>
       /\ lastCall.hasCell <=> (rowInRange(lastCall.row) /\ columnInRange(lastCall.column))
       /\ lastCall.hasCell =>
             /\ lastCall.thrown = "none"
             /\ lastCall.value.kind = "object"
             /\ lastCall.value.value = cellAt(lastCall.row, lastCall.column)
             /\ lastCall.value.value.gridPosition
                   = [row |-> lastCall.row, column |-> lastCall.column]
       /\ ~rowInRange(lastCall.row) => lastCall.thrown /= "none"
       /\ (rowInRange(lastCall.row) /\ ~columnInRange(lastCall.column)) =>
             /\ lastCall.thrown = "none"
             /\ lastCall.value.kind = "undefined"

\* getCell has been asked for the column right of the last one in a row
\* of the grid, and has returned undefined
C27_Witness ==
    /\ lastCall.name = "getCell"
    /\ rowInRange(lastCall.row)
    /\ lastCall.column = config.numberOfColumns
    /\ ~lastCall.hasCell
    /\ lastCall.thrown = "none"
    /\ lastCall.value.kind = "undefined"

-----------------------------------------------------------------------------
(* C26 *)

\* area b, all of it, lies within area a
covers(a, b) ==
    /\ a.position.x <= b.position.x
    /\ b.position.x + b.dimensions.width <= a.position.x + a.dimensions.width
    /\ a.position.y <= b.position.y
    /\ b.position.y + b.dimensions.height <= a.position.y + a.dimensions.height

\* C26: for every entity of a constructed board, someOnTheBoard and
\* allOnTheBoard both return a boolean without an error: someOnTheBoard true
\* exactly when the entity's occupied area intersects the grid's total
\* occupied area, allOnTheBoard true exactly when the grid's total occupied
\* area contains it.
C26_OnTheBoard ==
    (lastCall.name = "onTheBoard") =>
       LET occupied == Entity_occupiedArea(lastCall.entity)
       IN  /\ lastCall.someOnTheBoard.thrown = "none"
           /\ lastCall.someOnTheBoard.value = object(overlap(occupied, gridOccupiedArea))
           /\ lastCall.allOnTheBoard.thrown = "none"
           /\ lastCall.allOnTheBoard.value = object(covers(gridOccupiedArea, occupied))

-----------------------------------------------------------------------------
(* C25 *)

\* area a moved by the vector
moved(a, vector) ==
    [position   |-> [x |-> a.position.x + vector.x, y |-> a.position.y + vector.y],
     dimensions |-> a.dimensions]

\* C25: canMove(vector) of an Actor returns, without throwing, true when the
\* actor may move outside the board, and otherwise true exactly when its
\* occupied area moved by the vector still intersects the board area;
\* move(vector) returns what canMove returns, without throwing, and has moved
\* the actor by the vector exactly when that is true.
C25_ActorMove ==
    (lastCall.name = "Actor.move") =>
       LET actor   == lastCall.actor
           allowed == \/ actor.canMoveOutsideBoard
                      \/ Area_intersectsWith(moved(Entity_occupiedArea(actor),
                                                   lastCall.increment),
                                             grid.area)
       IN  /\ lastCall.canMove.thrown = "none"
           /\ lastCall.canMove.value = allowed
           /\ lastCall.move.thrown = "none"
           /\ lastCall.move.value = allowed
           /\ lastCall.move.actor.position
                 = IF allowed
                   THEN [x |-> actor.position.x + lastCall.increment.x,
                         y |-> actor.position.y + lastCall.increment.y]
                   ELSE actor.position

-----------------------------------------------------------------------------
(* C29 *)

\* the z-index of the entity drawn k-th
drawnZIndex(k) == Board_entities(nonPlayerEntities, player)[lastCall.drawn[k]].zIndex

\* C29: Board.render draws every non-player entity and the player once, in
\* ascending order of z-index, and entities of equal z-index in the order
\* they have in the collection, the player after them.
C29_StableOrder ==
    (lastCall.name = "render") =>
       /\ Len(lastCall.drawn) = Len(nonPlayerEntities) + 1
       /\ \A index \in 1..(Len(nonPlayerEntities) + 1) :
             \E k \in 1..Len(lastCall.drawn) : lastCall.drawn[k] = index
       /\ \A k \in 1..(Len(lastCall.drawn) - 1) :
             \/ drawnZIndex(k) < drawnZIndex(k + 1)
             \/ /\ drawnZIndex(k) = drawnZIndex(k + 1)
                /\ lastCall.drawn[k] < lastCall.drawn[k + 1]

-----------------------------------------------------------------------------
(* C31 *)

\* C31: an enemy that a Board.update removes and replaces has been at least
\* partly on the board before: it was there when that update began.  (An
\* enemy that was not on the board after an earlier update was replaced by
\* that update, so an enemy that is off the board when an update begins has
\* not been moved since it was spawned.)
C31_RecycledAfterEntering ==
    [][ (lastCall'.name = "update") =>
           \A k \in 1..Len(pass') :
              (isEnemy(pass'[k].entity) /\ pass'[k].entityAfter.respawnOnNextUpdate) =>
                 Entity_someOnTheBoard(grid, pass'[k].entity)
      ]_vars

-----------------------------------------------------------------------------
(* C32 *)

\* C32: on a valid configuration (supported row types, a road row, no more
\* diamonds than road cells) the Board constructor returns without throwing,
\* whatever numbers placeDiamonds and spawnEnemy draw.
C32_ConstructionCompletes ==
    (validConfiguration /\ lastCall.name = "Board") => thrown = "none"

-----------------------------------------------------------------------------
(* C33 *)

\* area a lies entirely left of area b
leftOf(a, b) == a.position.x + a.dimensions.width < b.position.x

\* the iteration moved its enemy, which is on the row of a player standing on
\* the road, from one side of the player's occupied area to the other
jumpedOver(step) ==
    LET before == Entity_occupiedArea(step.entity)
        after  == Entity_occupiedArea(step.entityAfter)
        target == Entity_occupiedArea(step.player)
    IN  /\ isEnemy(step.entity)
        /\ config.rowTypes[step.player.gridPosition.row + 1] = "road"
        /\ step.playerAfter = step.player
        /\ Area_center(before).y = Area_center(target).y
        /\ \/ leftOf(before, target) /\ leftOf(target, after)
           \/ leftOf(target, before) /\ leftOf(after, target)

\* C33: no Board.update takes an enemy from entirely on one side of the
\* occupied area of a player standing on the enemy's road row to entirely on
\* the other side: every enemy that crosses the player is found touching it
\* by some update, whatever dt.
C33_NoTunnelling ==
    [][ (lastCall'.name = "update") =>
           \A k \in 1..Len(pass') : ~jumpedOver(pass'[k])
      ]_vars

-----------------------------------------------------------------------------
(* C34 *)

\* C34: the player touches the cell of the grid at its grid position and no
\* other cell.
C34_OneCell ==
    constructed =>
       \A row \in 0..(Len(config.rowTypes) - 1), column \in 0..(config.numberOfColumns - 1) :
          Entity_touches(player, grid.rows[row + 1][column + 1])
             <=> (player.gridPosition = [row |-> row, column |-> column])

\* an update has run with the player on the road row below the water, on a
\* board of two columns: the player touched its own cell and no other, and
\* the water gave it nothing
C34_Witness ==
    /\ updated
    /\ config.numberOfColumns = 2
    /\ player.gridPosition.row = 1
    /\ config.rowTypes[1] = "water"
    /\ \A k \in 1..Len(pass) :
          /\ pass[k].player.gridPosition = player.gridPosition
          /\ isWaterCell(pass[k].entity) => (~touched(pass[k]) /\ scoreChange(pass[k]) = 0)
    /\ \E k \in 1..Len(pass) :
          /\ pass[k].entity.kind = "BoardGridCell"
          /\ touched(pass[k])
          /\ pass[k].entity.gridPosition = player.gridPosition

-----------------------------------------------------------------------------
(* C35 *)

\* C35: for every pair of areas a Board.update has tested (the player's
\* occupied area against that of each entity it handled, and each enemy's
\* occupied area, where its move left it, against the grid's total occupied
\* area) intersectsWith has answered what the overlap of the two areas'
\* intervals, edges included, answers.
C35_ExactOnTestedPairs ==
    updated =>
       \A k \in 1..Len(pass) :
          /\ touched(pass[k])
                <=> overlap(Entity_occupiedArea(pass[k].player),
                            Entity_occupiedArea(pass[k].entity))
          /\ isEnemy(pass[k].entity) =>
                (Area_intersectsWith(Entity_occupiedArea(pass[k].entityAfter),
                                     grid.occupiedArea)
                    <=> overlap(Entity_occupiedArea(pass[k].entityAfter), gridOccupiedArea))

\* an update in which the player touched an enemy, none of whose corners lies
\* in the player's occupied area, and did not touch a cell
C35_Witness ==
    /\ updated
    /\ \E k \in 1..Len(pass) :
          /\ isEnemy(pass[k].entity)
          /\ touched(pass[k])
          /\ \A c \in cornersOf(Entity_occupiedArea(pass[k].entity)) :
                ~within(c, Entity_occupiedArea(pass[k].player))
          /\ Entity_someOnTheBoard(grid, pass[k].entityAfter)
    /\ \E k \in 1..Len(pass) :
          /\ pass[k].entity.kind = "BoardGridCell"
          /\ ~touched(pass[k])

-----------------------------------------------------------------------------
(* A crowded road: a board of one column whose road cell holds a diamond and
   is crossed by two enemies *)

CrowdConfigs ==
    { [numberOfColumns     |-> 1,
       rowTypes            |-> <<"water", "road", "grass">>,
       numberOfEnemies     |-> 2,
       numberOfDiamonds    |-> 1,
       enemyIncrementRange |-> [min |-> 100, max |-> 100],
       cellVisualTemplate  |-> cellVisualTemplate] }

\* frame times that bring the enemies onto the road cell, and off it again
CrowdDts == {0, 1}

InitCrowd ==
    \E cfg \in CrowdConfigs :
        \E diamondDraws \in DiamondDraws(cfg, BoardGrid(cfg)) :
            \E spawnDraws \in [1..cfg.numberOfEnemies -> SpawnDraws(cfg, BoardGrid(cfg))] :
                LET board == Board(cfg, diamondDraws, spawnDraws)
                IN  /\ config = cfg
                    /\ grid = board.grid
                    /\ nonPlayerEntities = board.nonPlayerEntities
                    /\ player = board.player
                    /\ thrown = board.thrown
                    /\ lastCall = [name |-> "Board"]
                    /\ pass = <<>>

\* the keys that move the player on a board of one column
CrowdTokens == {"up", "down"}

NextCrowd ==
    \/ \E direction \in CrowdTokens : KeyUp(direction)
    \/ \E dt \in CrowdDts : Frame(dt)

SpecCrowd == InitCrowd /\ [][NextCrowd]_vars

-----------------------------------------------------------------------------
(* C36 *)

\* the iterations of a pass that changed the score
scoringSteps(steps) == {k \in 1..Len(steps) : scoreChange(steps[k]) /= 0}

\* the iterations of a pass that respawned the player
respawningSteps(steps) ==
    {k \in 1..Len(steps) :
        touched(steps[k]) /\ (isEnemy(steps[k].entity) \/ isWaterCell(steps[k].entity))}

\* C36: on a board whose bottom row is grass, one Board.update changes the
\* score in at most one of its iterations and respawns the player in at most
\* one, and the score after it is the score before it plus -2, 0, 1 or 2.
C36_OneEventPerUpdate ==
    [][ (lastCall'.name = "update" /\ config.rowTypes[Len(config.rowTypes)] = "grass") =>
           /\ Cardinality(scoringSteps(pass')) <= 1
           /\ Cardinality(respawningSteps(pass')) <= 1
           /\ player'.score - player.score \in {-2, 0, 1, 2}
      ]_vars

\* an update that began with the player on a cell that held a diamond and
\* two enemies: it took 2 points off, once
C36_Witness ==
    /\ updated
    /\ Len(pass) > 0
    /\ LET start == Entity_occupiedArea(pass[1].player)
       IN  /\ \E i, j \in 1..Len(pass) :
                 /\ i /= j
                 /\ isEnemy(pass[i].entity) /\ overlap(start, Entity_occupiedArea(pass[i].entity))
                 /\ isEnemy(pass[j].entity) /\ overlap(start, Entity_occupiedArea(pass[j].entity))
           /\ \E d \in 1..Len(pass) :
                 /\ isDiamond(pass[d].entity)
                 /\ overlap(start, Entity_occupiedArea(pass[d].entity))
    /\ player.score = pass[1].player.score - 2
    /\ Cardinality(scoringSteps(pass)) = 1

-----------------------------------------------------------------------------
(* Grass on both sides of a road: a board of one column with the rows grass,
   road, grass and one enemy *)

GrassConfigs ==
    { [numberOfColumns     |-> 1,
       rowTypes            |-> <<"grass", "road", "grass">>,
       numberOfEnemies     |-> 1,
       numberOfDiamonds    |-> 0,
       enemyIncrementRange |-> [min |-> 100, max |-> 101],
       cellVisualTemplate  |-> cellVisualTemplate] }

InitGrass ==
    \E cfg \in GrassConfigs :
        \E diamondDraws \in DiamondDraws(cfg, BoardGrid(cfg)) :
            \E spawnDraws \in [1..cfg.numberOfEnemies -> SpawnDraws(cfg, BoardGrid(cfg))] :
                LET board == Board(cfg, diamondDraws, spawnDraws)
                IN  /\ config = cfg
                    /\ grid = board.grid
                    /\ nonPlayerEntities = board.nonPlayerEntities
                    /\ player = board.player
                    /\ thrown = board.thrown
                    /\ lastCall = [name |-> "Board"]
                    /\ pass = <<>>

NextGrass ==
    \/ \E direction \in Tokens : KeyUp(direction)
    \/ \E dt \in 0..MaxDt : Frame(dt)

SpecGrass == InitGrass /\ [][NextGrass]_vars

-----------------------------------------------------------------------------
(* C37 *)

onGrass(p) == config.rowTypes[p.gridPosition.row + 1] = "grass"

\* C37: an iteration of Board.update that finds the player on a grass cell
\* leaves the player as it is: the score is not changed and the player is
\* not respawned, wherever the enemies and the blood props are.
C37_GrassIsSafe ==
    [][ (lastCall'.name = "update") =>
           /\ \A k \in 1..Len(pass') :
                 onGrass(pass'[k].player) =>
                    /\ scoreChange(pass'[k]) = 0
                    /\ ~(touched(pass'[k]) /\ isEnemy(pass'[k].entity))
                    /\ pass'[k].playerAfter = pass'[k].player
           /\ onGrass(player) => player' = player
      ]_vars

\* an update with the player on the grass above the road, where it touches
\* the blood prop of an earlier death, while an enemy is on the road cell
\* below it: the player is as it was
C37_Witness ==
    /\ updated
    /\ onGrass(player)
    /\ player.gridPosition.row = 0
    /\ Len(pass) > 0
    /\ pass[1].player = player
    /\ \E k \in 1..Len(pass) : isBlood(pass[k].entity) /\ touched(pass[k])
    /\ \E k \in 1..Len(pass) :
          /\ isEnemy(pass[k].entity)
          /\ ~leftOf(Entity_occupiedArea(pass[k].entity), Entity_occupiedArea(player))
          /\ ~leftOf(Entity_occupiedArea(player), Entity_occupiedArea(pass[k].entity))

-----------------------------------------------------------------------------
(* The main loop on its own: boards with one enemy, no key pressed, and
   main() rescheduling itself with requestAnimationFrame for ever *)

LiveConfigs ==
    { [numberOfColumns     |-> columns,
       rowTypes            |-> <<"water", "road", "grass">>,
       numberOfEnemies     |-> 1,
       numberOfDiamonds    |-> 0,
       enemyIncrementRange |-> [min |-> 100, max |-> 101],
       cellVisualTemplate  |-> cellVisualTemplate] : columns \in 1..3 }

InitLive ==
    \E cfg \in LiveConfigs :
        \E diamondDraws \in DiamondDraws(cfg, BoardGrid(cfg)) :
            \E spawnDraws \in [1..cfg.numberOfEnemies -> SpawnDraws(cfg, BoardGrid(cfg))] :
                LET board == Board(cfg, diamondDraws, spawnDraws)
                IN  /\ config = cfg
                    /\ grid = board.grid
                    /\ nonPlayerEntities = board.nonPlayerEntities
                    /\ player = board.player
                    /\ thrown = board.thrown
                    /\ lastCall = [name |-> "Board"]
                    /\ pass = <<>>

\* a frame in which time has passed
FrameLater == \E dt \in 1..MaxDt : Frame(dt)

\* a frame in the millisecond of the frame before it
FrameAtOnce == Frame(0)

NextLive ==
    \/ FrameLater
    \/ FrameAtOnce

\* win.requestAnimationFrame(main) is the last statement of main(): the next
\* frame is requested unless update or render has thrown, and the clock moves
\* on.  This is weak fairness of FrameLater with its enabling condition
\* written out: on these boards the player never scores or bleeds, so the
\* guard of Frame is thrown = "none".
FramesKeepComing == []<><<FrameLater>>_vars \/ <>(thrown /= "none")

SpecLive == InitLive /\ [][NextLive]_vars /\ FramesKeepComing

-----------------------------------------------------------------------------
(* C38 *)

\* the last update has removed an enemy and spawned another
replaced ==
    /\ updated
    /\ \E k \in 1..Len(pass) :
          isEnemy(pass[k].entity) /\ pass[k].entityAfter.respawnOnNextUpdate
    /\ enemyCount(nonPlayerEntities) = 1

\* C38: while frames with dt > 0 keep coming, nothing is ever thrown that
\* would end the loop, and from every state of a board with its one enemy an
\* update follows that removes that enemy and spawns another.
C38_EnemiesComeAndGo ==
    /\ [](thrown = "none")
    /\ (enemyCount(nonPlayerEntities) = 1) ~> replaced

\* an update with dt > 0 has replaced an enemy that moved right to left and
\* was on the board before
C38_Witness ==
    /\ updated
    /\ lastCall.dt > 0
    /\ \E k \in 1..Len(pass) :
          /\ isEnemy(pass[k].entity)
          /\ pass[k].entity.moveIncrement.x < 0
          /\ Entity_someOnTheBoard(grid, pass[k].entity)
          /\ pass[k].entityAfter.respawnOnNextUpdate

-----------------------------------------------------------------------------
(* C39 *)

\* the cells of the grid that are in the collection of the board
cellEntities ==
    { nonPlayerEntities[i] : i \in { j \in 1..Len(nonPlayerEntities) :
                                       nonPlayerEntities[j].kind = "BoardGridCell" } }

\* C39: the cell at (row, column) of the grid, and every cell in the board's
\* collection, has the z-index row * (row + 1) / 2 of its row and the position
\* (column * width, row * height) of the occupied area of the cell template.
C39_CellLayout ==
    LET cellOccupied == config.cellVisualTemplate.occupiedArea.dimensions
        laidOut(cell, row, column) ==
            /\ cell.zIndex = (row * (row + 1)) \div 2
            /\ cell.position = Point(column * cellOccupied.width,
                                     row * cellOccupied.height)
    IN  /\ \A row \in 0..(grid.numberOfRows - 1) :
              \A column \in 0..(grid.numberOfColumns - 1) :
                 laidOut(grid.rows[row + 1][column + 1], row, column)
        /\ \A cell \in cellEntities :
              laidOut(cell, cell.gridPosition.row, cell.gridPosition.column)

\* a grid of two columns and three rows, whose last cell is in the collection
\* with z-index 3 at 101 by 166 pixels
C39_Witness ==
    /\ grid.numberOfColumns = 2
    /\ grid.numberOfRows = 3
    /\ \E cell \in cellEntities :
          /\ cell.gridPosition = [row |-> 2, column |-> 1]
          /\ cell.zIndex = 3
          /\ cell.position = Point(px(101), px(166))

====
